---------------------------- MODULE Spec2Model ----------------------------
(***************************************************************************)
(* State-machine model of arch/arm64/kernel/smp.c: enumeration of the     *)
(* logical CPU map (smp_init_cpus), secondary bring-up (__cpu_up,          *)
(* secondary_start_kernel, cpu_die_early) and the boot-status handshake,   *)
(* hotplug teardown (__cpu_disable, __cpu_die, cpu_die) and the IPI path   *)
(* (smp_cross_call_common, handle_IPI, smp_send_stop,                      *)
(* smp_send_all_cpu_backtrace).                                            *)
(*                                                                         *)
(* The specifications of the module:                                       *)
(*   SpecEnum  : smp_init_cpus() over an arbitrary record sequence         *)
(*   Spec      : __cpu_up() on the boot CPU against the secondaries        *)
(*   SpecLife  : smp_prepare_cpus(), bring-up, activation and teardown     *)
(*   SpecQuery : cpus_are_stuck_in_kernel() over its inputs                *)
(*   SpecIpi   : smp_send_reschedule(), smp_send_stop() and handle_IPI()   *)
(*   SpecBt    : smp_send_all_cpu_backtrace() and its handler              *)
(*   SpecIpiLive, SpecBtLive : the same with the senders running on        *)
(***************************************************************************)
EXTENDS Integers, Sequences, FiniteSets, TLC

(***************************************************************************)
(* Bounds of the model.                                                    *)
(***************************************************************************)
\* number of logical CPU slots (NR_CPUS of the build)
NR_CPUS == 3
\* largest hardware identifier with only affinity bits set
MaxHwid == 2
\* number of platform records (DT cpu nodes / MADT GICC entries) walked
MaxRecords == 3

Cpus == 0 .. (NR_CPUS - 1)
Secondaries == 1 .. (NR_CPUS - 1)

(***************************************************************************)
(* Hardware identifiers.  The 64-bit MPIDR is scaled down: values          *)
(* 0..MaxHwid carry affinity bits only, every larger value has a bit       *)
(* outside MPIDR_HWID_BITMASK set, and the largest value is INVALID_HWID   *)
(* (ULONG_MAX, which also has non-affinity bits set).                      *)
(***************************************************************************)
INVALID_HWID == MaxHwid + 2
RawHwids == 0 .. INVALID_HWID
ValidHwids == 0 .. MaxHwid
\* hwid & ~MPIDR_HWID_BITMASK
NonAffinityBits(hwid) == IF hwid > MaxHwid THEN hwid - MaxHwid ELSE 0

\* a DT cpu node without a "reg" property
NoReg == INVALID_HWID + 1
\* cpu_ops[cpu]: .set is FALSE for a NULL pointer, otherwise the record tells
\* which optional operations the enable method provides.
NoOps == [set |-> FALSE, cpu_boot |-> FALSE, cpu_die |-> FALSE,
          cpu_kill |-> FALSE, cpu_disable |-> FALSE]
OpsRecords == [set : {TRUE}, cpu_boot : BOOLEAN, cpu_die : BOOLEAN,
               cpu_kill : BOOLEAN, cpu_disable : BOOLEAN]
\* What cpu_read_ops() can install: an enable method without hotplug support
\* (spin-table, parking protocol) or one with it (PSCI).
SpinTableOps == [set |-> TRUE, cpu_boot |-> TRUE, cpu_die |-> FALSE,
                 cpu_kill |-> FALSE, cpu_disable |-> FALSE]
PsciOps == [set |-> TRUE, cpu_boot |-> TRUE, cpu_die |-> TRUE,
            cpu_kill |-> TRUE, cpu_disable |-> TRUE]
EnableMethods == {SpinTableOps, PsciOps}

VARIABLES
    \* ---- enumeration (smp_init_cpus) ----
    acpi_disabled,      \* TRUE: device-tree path, FALSE: MADT path
    nr_cpu_ids,         \* run-time CPU limit, <= NR_CPUS
    cpu_logical_map,    \* [Cpus -> RawHwids]
    cpu_count,          \* static unsigned int cpu_count = 1
    bootcpu_valid,      \* static bool bootcpu_valid
    epc,                \* position inside smp_init_cpus
    init_i,             \* loop variable i of the init pass
    nrecords,           \* history: number of records walked so far
    rec,                \* history: the last record walked
    last,               \* history: what became of that record
    accepted,           \* history: every map write, in record order
    init_called,        \* history: indices smp_cpu_setup() was run for
    \* ---- shared CPU state ----
    cpu_ops,            \* [Cpus -> OpsRecords \cup {NoOps}]
    cpu_possible,       \* cpu_possible_mask
    cpu_present,        \* cpu_present_mask
    cpu_online,         \* cpu_online_mask
    \* ---- bring-up (__cpu_up against secondary_start_kernel) ----
    config_hotplug_cpu,      \* CONFIG_HOTPLUG_CPU of the build
    secondary_data,          \* [task, stack, status]: the handoff block
    early_cpu_boot_status,   \* __early_cpu_boot_status
    cpu_running,             \* cpu_running.done of the completion
    cpus_stuck_in_kernel,    \* int cpus_stuck_in_kernel
    pc,                      \* position of the boot CPU inside __cpu_up
    up_cpu,                  \* argument cpu of the current __cpu_up call
    ret,                     \* local ret of __cpu_up
    spc,                     \* position of every secondary core
    att,                     \* history of the current __cpu_up call
    \* ---- life cycle (smp_prepare_cpus, hotplug teardown) ----
    prepared,           \* smp_prepare_cpus() has run
    cpu_active,         \* cpu_active_mask
    stopped,            \* cores spinning at the end of ipi_cpu_stop()
    irq_disabled,       \* cores that ran local_irq_disable() for good
    death_reported,     \* cores that ran cpu_report_death()
    irqs_migrated,      \* history: cores whose interrupts were migrated
    dpc,                \* position of every core inside cpu_die()
    hp,                 \* the teardown in progress, seen from its caller
    stuck_query,        \* history: last cpus_are_stuck_in_kernel() call
    \* ---- inter-processor interrupts ----
    system_state,       \* system_state of the kernel
    pending_ipi,        \* cores whose per-cpu pending_ipi is true
    ipi_raised,         \* [Cpus -> SUBSET IpiKinds]: raised, not yet handled
    ncalls,             \* history: number of __smp_cross_call() calls
    snd,                \* the smp_cross_call_common() call in progress
    stp,                \* the smp_send_stop() call in progress
    backtrace_flag,     \* bit 0 of backtrace_flag
    backtrace_mask,     \* backtrace_mask
    bt,                 \* position of every core in smp_send_all_cpu_backtrace
    bt_i,               \* loop variable i of every such call
    backtrace_lock,     \* the cores that hold backtrace_lock (at most one)
    dumped,             \* history: cores that dumped in ipi_cpu_stop()
    last_bt             \* history: outcome of the last backtrace call

enumVars == <<acpi_disabled, nr_cpu_ids, cpu_logical_map, cpu_count,
              bootcpu_valid, epc, init_i, nrecords, rec, last, accepted,
              init_called>>
maskVars == <<cpu_ops, cpu_possible, cpu_present, cpu_online>>
bootVars == <<config_hotplug_cpu, secondary_data, early_cpu_boot_status,
              cpu_running, cpus_stuck_in_kernel, pc, up_cpu, ret, spc, att>>
lifeVars == <<prepared, cpu_active, stopped, irq_disabled, death_reported,
              irqs_migrated, dpc, hp, stuck_query>>
ipiVars == <<system_state, pending_ipi, ipi_raised, ncalls, snd,
             stp, backtrace_flag, backtrace_mask, bt, bt_i, backtrace_lock,
             dumped, last_bt>>
vars == <<enumVars, maskVars, bootVars, lifeVars, ipiVars>>

(***************************************************************************)
(* Boot status values (secondary_data.status, __early_cpu_boot_status).    *)
(* The numbers are those of arch/arm64/include/asm/smp.h.                  *)
(***************************************************************************)
CPU_MMU_OFF == -1
CPU_BOOT_SUCCESS == 0
CPU_KILL_ME == 1
CPU_STUCK_IN_KERNEL == 2
CPU_PANIC_KERNEL == 3
StatusValues == {CPU_MMU_OFF, CPU_BOOT_SUCCESS, CPU_KILL_ME,
                 CPU_STUCK_IN_KERNEL, CPU_PANIC_KERNEL}

\* A pointer into the idle task of cpu: {} is NULL.
NULL == {}
IdleTask(cpu) == {cpu}

\* History record of one __cpu_up call, before anything happened.
NoAttempt ==
    [released |-> FALSE,        \* cpu_boot accepted, the core was released
     op_ret |-> "none",         \* what cpu_ops[cpu]->cpu_boot returned
     woken |-> "none",          \* how the wait ended: completed / timeout
     target_signalled |-> FALSE,\* target had run complete() when it ended
     online_seen |-> FALSE,     \* cpu_online(cpu) as read after the wait
     word |-> "none",           \* status word the switch ran on
     status |-> CPU_BOOT_SUCCESS, \* status value read back
     kill |-> "none",           \* op_cpu_kill: none / ok / fail
     report |-> {},             \* failure classifications reported
     stuck_before |-> 0]        \* cpus_stuck_in_kernel at entry

\* Static storage at start: no call in progress, completion not signalled.
BootVarsAtRest ==
    /\ secondary_data = [task |-> NULL, stack |-> NULL,
                         status |-> CPU_BOOT_SUCCESS]
    /\ early_cpu_boot_status = CPU_BOOT_SUCCESS
    /\ cpu_running = 0
    /\ cpus_stuck_in_kernel = 0
    /\ pc = "idle"
    /\ up_cpu = 0
    /\ ret = "0"
    /\ spc = [c \in Secondaries |-> "off"]
    /\ att = NoAttempt

\* The IPI numbers of enum ipi_msg_type.
IpiKinds == {"IPI_RESCHEDULE", "IPI_CALL_FUNC", "IPI_CPU_STOP", "IPI_TIMER",
             "IPI_IRQ_WORK", "IPI_WAKEUP", "IPI_CPU_BACKTRACE"}

\* No teardown in progress.
NoTeardown == [cpu |-> 0, cpc |-> "none", ret |-> "0", waited |-> "none",
               kill |-> "none"]
\* cpus_are_stuck_in_kernel() has not been called.
NoQuery == [asked |-> FALSE, cpu |-> 0, stuck |-> 0, result |-> FALSE]
\* No smp_cross_call_common() call in progress.
NoSend == [pc |-> "none", mask |-> {}, kind |-> "none"]
\* No smp_send_stop() call in progress.
NoStop == [pc |-> "none", cpu |-> 0, mask |-> {}, timeout |-> 0,
           sent |-> FALSE]
\* smp_send_all_cpu_backtrace() has not been called.
NoBacktrace == [called |-> FALSE, cpu |-> 0, noop |-> FALSE,
                timed_out |-> FALSE]

\* Life-cycle state before smp_prepare_cpus(): the boot CPU alone is active,
\* nothing is being torn down.
LifeVarsAtRest ==
    /\ cpu_active = {0}
    /\ stopped = {}
    /\ irq_disabled = {}
    /\ death_reported = {}
    /\ irqs_migrated = {}
    /\ dpc = [c \in Cpus |-> "run"]
    /\ hp = NoTeardown
    /\ stuck_query = NoQuery

\* IPI state with nothing sent: static storage is zero.
IpiVarsAtRest ==
    /\ pending_ipi = {}
    /\ ipi_raised = [c \in Cpus |-> {}]
    /\ ncalls = 0
    /\ snd = NoSend
    /\ stp = NoStop
    /\ backtrace_flag = FALSE
    /\ backtrace_mask = {}
    /\ bt = [c \in Cpus |-> "none"]
    /\ bt_i = [c \in Cpus |-> 0]
    /\ backtrace_lock = {}
    /\ dumped = {}
    /\ last_bt = NoBacktrace

(***************************************************************************)
(* Enumeration                                                             *)
(***************************************************************************)

\* of_get_cpu_mpidr(): a missing reg property or non-affinity bits give
\* INVALID_HWID.
of_get_cpu_mpidr(reg) ==
    IF reg = NoReg THEN INVALID_HWID
    ELSE IF NonAffinityBits(reg) # 0 THEN INVALID_HWID
    ELSE reg

\* Mutant: the scan stops one entry short.
is_mpidr_duplicate_short(cpu, hwid) ==
    \E i \in 1 .. (NR_CPUS - 1) :
        i + 1 < cpu /\ cpu_logical_map[i] = hwid

\* is_mpidr_duplicate(): for (i = 1; (i < cpu) && (i < NR_CPUS); i++)
is_mpidr_duplicate(cpu, hwid) ==
    \E i \in 1 .. (NR_CPUS - 1) :
        i < cpu /\ cpu_logical_map[i] = hwid

\* History only: the number of records walked, and what became of this one.
Note(o) == /\ nrecords' = nrecords + 1
           /\ last' = o

\* Mutant: the store lands one slot low.
LogicalMapStore_low(idx, hwid) ==
    /\ cpu_logical_map' = [cpu_logical_map EXCEPT ![idx - 1] = hwid]
    /\ accepted' = Append(accepted, [idx |-> idx - 1, hwid |-> hwid,
                                     nth |-> nrecords,
                                     boot_before |-> bootcpu_valid])

\* cpu_logical_map(cpu_count) = hwid
LogicalMapStore(idx, hwid) ==
    /\ cpu_logical_map' = [cpu_logical_map EXCEPT ![idx] = hwid]
    /\ accepted' = Append(accepted, [idx |-> idx, hwid |-> hwid,
                                     nth |-> nrecords,
                                     boot_before |-> bootcpu_valid])

\* Mutant: a dropped DT node does not advance the counter.
GotoNext_nocount(kind) ==
    /\ Note(kind)
    /\ UNCHANGED <<cpu_count, cpu_logical_map, bootcpu_valid, accepted>>

\* of_parse_and_init_cpus(): "goto next" drops the node; the label next:
\* still runs cpu_count++.
GotoNext(kind) ==
    /\ cpu_count' = cpu_count + 1
    /\ Note(kind)
    /\ UNCHANGED <<cpu_logical_map, bootcpu_valid, accepted>>

\* acpi_map_gic_cpu_interface(): "return" drops the entry, nothing changes.
Return(kind) ==
    /\ Note(kind)
    /\ UNCHANGED <<cpu_count, cpu_logical_map, bootcpu_valid, accepted>>

\* One iteration of the while loop of of_parse_and_init_cpus().
OfParseRecord(reg) ==
    LET hwid == of_get_cpu_mpidr(reg) IN
    /\ epc = "enumerate" /\ acpi_disabled
    /\ nrecords < MaxRecords
    /\ IF hwid = INVALID_HWID THEN GotoNext("invalid")
       ELSE IF is_mpidr_duplicate(cpu_count, hwid) THEN GotoNext("duplicate")
       ELSE IF hwid = cpu_logical_map[0] THEN
            IF bootcpu_valid THEN GotoNext("bootdup")
            ELSE
                \* continue: cpu_count is not incremented
                /\ bootcpu_valid' = TRUE
                /\ Note("boot")
                /\ UNCHANGED <<cpu_logical_map, cpu_count, accepted>>
       ELSE IF cpu_count >= NR_CPUS THEN GotoNext("clipped")
       ELSE
            /\ LogicalMapStore(cpu_count, hwid)
            /\ cpu_count' = cpu_count + 1
            /\ Note("assigned")
            /\ UNCHANGED bootcpu_valid
    /\ rec' = [reg |-> reg, usable |-> TRUE]
    /\ UNCHANGED <<acpi_disabled, nr_cpu_ids, epc, init_i, init_called>>
    /\ UNCHANGED <<maskVars, bootVars, lifeVars, ipiVars>>

\* acpi_map_gic_cpu_interface(): one MADT GICC entry.
acpi_map_gic_cpu_interface(hwid, enabled) ==
    IF ~enabled THEN Return("disabled")
    ELSE IF NonAffinityBits(hwid) # 0 \/ hwid = INVALID_HWID
        THEN Return("invalid")
    ELSE IF is_mpidr_duplicate(cpu_count, hwid) THEN Return("duplicate")
    ELSE IF cpu_logical_map[0] = hwid THEN
        IF bootcpu_valid THEN Return("bootdup")
        ELSE
            /\ bootcpu_valid' = TRUE
            /\ Note("boot")
            /\ UNCHANGED <<cpu_logical_map, cpu_count, accepted>>
    ELSE IF cpu_count >= NR_CPUS THEN Return("clipped")
    ELSE
        /\ LogicalMapStore(cpu_count, hwid)
        /\ cpu_count' = cpu_count + 1
        /\ Note("assigned")
        /\ UNCHANGED bootcpu_valid

\* acpi_parse_gic_cpu_interface(): the MADT walker's callback.  A malformed
\* entry (BAD_MADT_GICC_ENTRY) is rejected before it is looked at.
acpi_parse_gic_cpu_interface(hwid, enabled, bad) ==
    /\ epc = "enumerate" /\ ~acpi_disabled
    /\ nrecords < MaxRecords
    /\ IF bad THEN Return("badentry")
       ELSE acpi_map_gic_cpu_interface(hwid, enabled)
    /\ rec' = [reg |-> hwid, usable |-> enabled /\ ~bad]
    /\ UNCHANGED <<acpi_disabled, nr_cpu_ids, epc, init_i, init_called>>
    /\ UNCHANGED <<maskVars, bootVars, lifeVars, ipiVars>>

\* Mutant: the missing boot CPU does not stop the init pass.
EnumFinish_noabort ==
    /\ epc = "enumerate"
    /\ epc' = "init"
    /\ init_i' = 1
    /\ UNCHANGED <<acpi_disabled, nr_cpu_ids, cpu_logical_map, cpu_count,
                   bootcpu_valid, nrecords, rec, last, accepted, init_called>>
    /\ UNCHANGED <<maskVars, bootVars, lifeVars, ipiVars>>

\* smp_init_cpus(), after the walk: the bootcpu_valid check.
EnumFinish ==
    /\ epc = "enumerate"
    /\ IF ~bootcpu_valid
          THEN epc' = "done"
          ELSE epc' = "init"
    /\ init_i' = 1
    /\ UNCHANGED <<acpi_disabled, nr_cpu_ids, cpu_logical_map, cpu_count,
                   bootcpu_valid, nrecords, rec, last, accepted, init_called>>
    /\ UNCHANGED <<maskVars, bootVars, lifeVars, ipiVars>>

\* Mutant: the core is marked possible before cpu_init() is tried.
smp_cpu_setup_early(cpu, read_ok, ops, init_ok) ==
    IF ~read_ok
       THEN [ops |-> cpu_ops[cpu], ret |-> "ENODEV", possible |-> FALSE]
    ELSE IF ~init_ok THEN [ops |-> ops, ret |-> "ENODEV", possible |-> TRUE]
    ELSE [ops |-> ops, ret |-> "0", possible |-> TRUE]

\* smp_cpu_setup(): cpu_read_ops() and cpu_ops[cpu]->cpu_init() may fail.
\* Yields the new cpu_ops entry, and whether the CPU became possible.
smp_cpu_setup(cpu, read_ok, ops, init_ok) ==
    IF ~read_ok THEN [ops |-> cpu_ops[cpu], ret |-> "ENODEV", possible |-> FALSE]
    ELSE IF ~init_ok THEN [ops |-> ops, ret |-> "ENODEV", possible |-> FALSE]
    ELSE [ops |-> ops, ret |-> "0", possible |-> TRUE]

\* One iteration of the init loop of smp_init_cpus().
InitPassStep(read_ok, ops, init_ok) ==
    /\ epc = "init"
    /\ init_i < nr_cpu_ids
    /\ IF cpu_logical_map[init_i] # INVALID_HWID THEN
            LET r == smp_cpu_setup(init_i, read_ok, ops, init_ok) IN
            /\ init_called' = init_called \cup {init_i}
            /\ cpu_ops' = [cpu_ops EXCEPT ![init_i] = r.ops]
            /\ cpu_possible' = IF r.possible THEN cpu_possible \cup {init_i}
                               ELSE cpu_possible
            /\ cpu_logical_map' =
                 IF r.ret # "0"
                    THEN [cpu_logical_map EXCEPT ![init_i] = INVALID_HWID]
                    ELSE cpu_logical_map
       ELSE UNCHANGED <<init_called, cpu_ops, cpu_possible, cpu_logical_map>>
    /\ init_i' = init_i + 1
    /\ UNCHANGED <<acpi_disabled, nr_cpu_ids, cpu_count, bootcpu_valid, epc,
                   nrecords, rec, last, accepted, cpu_present, cpu_online>>
    /\ UNCHANGED <<bootVars, lifeVars, ipiVars>>

InitPassDone ==
    /\ epc = "init"
    /\ init_i >= nr_cpu_ids
    /\ epc' = "done"
    /\ UNCHANGED <<acpi_disabled, nr_cpu_ids, cpu_logical_map, cpu_count,
                   bootcpu_valid, init_i, nrecords, rec, last, accepted,
                   init_called>>
    /\ UNCHANGED <<maskVars, bootVars, lifeVars, ipiVars>>

\* State at entry to smp_init_cpus(): only the boot CPU is known
\* (boot_cpu_init, smp_setup_processor_id), every other map entry is
\* INVALID_HWID.
InitEnum ==
    /\ acpi_disabled \in BOOLEAN
    /\ nr_cpu_ids \in 1 .. NR_CPUS
    /\ \E boot \in ValidHwids :
          cpu_logical_map = [c \in Cpus |-> IF c = 0 THEN boot ELSE INVALID_HWID]
    /\ cpu_count = 1
    /\ bootcpu_valid = FALSE
    /\ epc = "enumerate"
    /\ init_i = 1
    /\ nrecords = 0
    /\ rec = [reg |-> NoReg, usable |-> FALSE]
    /\ last = "none"
    /\ accepted = <<>>
    /\ init_called = {}
    /\ cpu_ops = [c \in Cpus |-> NoOps]
    /\ cpu_possible = {0}
    /\ cpu_present = {0}
    /\ cpu_online = {0}
    /\ config_hotplug_cpu = TRUE     \* not read by smp_init_cpus()
    /\ BootVarsAtRest
    /\ prepared = FALSE
    /\ LifeVarsAtRest
    /\ system_state = "SYSTEM_BOOTING"
    /\ IpiVarsAtRest

NextEnum ==
    \/ \E reg \in RawHwids \cup {NoReg} : OfParseRecord(reg)
    \/ \E hwid \in RawHwids, enabled \in BOOLEAN, bad \in BOOLEAN :
          acpi_parse_gic_cpu_interface(hwid, enabled, bad)
    \/ EnumFinish
    \/ \E read_ok \in BOOLEAN, ops \in EnableMethods, init_ok \in BOOLEAN :
          InitPassStep(read_ok, ops, init_ok)
    \/ InitPassDone

SpecEnum == InitEnum /\ [][NextEnum]_vars

(***************************************************************************)
(* Bring-up: __cpu_up() on the boot CPU                                    *)
(***************************************************************************)
EnumUnchanged == UNCHANGED <<enumVars, lifeVars, ipiVars>>

\* update_cpu_boot_status(val): secondary_data.status = val
update_cpu_boot_status(val) ==
    secondary_data' = [secondary_data EXCEPT !.status = val]

\* __cpu_up(), lines 156-159: publish the handoff block.  The caller brings
\* up a present core that is neither online nor already released, and walks
\* the present mask upwards (smp_init); the cores being interchangeable,
\* every other order is one of these with the cores renamed.
CpuUp_Begin(cpu) ==
    /\ pc \in {"idle", "returned"}
    /\ cpu \in cpu_present /\ cpu \notin cpu_online
    /\ cpu \in Secondaries /\ spc[cpu] = "off"
    /\ cpu >= up_cpu
    /\ cpu_ops[cpu].set
    /\ up_cpu' = cpu
    /\ secondary_data' = [task |-> IdleTask(cpu), stack |-> IdleTask(cpu),
                          status |-> CPU_MMU_OFF]
    /\ att' = [NoAttempt EXCEPT !.stuck_before = cpus_stuck_in_kernel]
    /\ ret' = "0"
    /\ pc' = "boot"
    /\ UNCHANGED <<config_hotplug_cpu, early_cpu_boot_status, cpu_running,
                   cpus_stuck_in_kernel, spc>>
    /\ UNCHANGED maskVars /\ EnumUnchanged

\* Mutant: a missing cpu_boot method counts as a successful boot.
boot_secondary_nullok(cpu, op_ret) ==
    IF cpu_ops[cpu].cpu_boot THEN op_ret ELSE "0"

\* boot_secondary(): op_ret is what cpu_ops[cpu]->cpu_boot(cpu) returns.
boot_secondary(cpu, op_ret) ==
    IF cpu_ops[cpu].cpu_boot THEN op_ret ELSE "-EOPNOTSUPP"

\* __cpu_up(), lines 164-165 and 181-184: call boot_secondary(); an error is
\* returned at once, otherwise the core has been released and is waited for.
CpuUp_Boot(op_ret) ==
    /\ pc = "boot"
    /\ LET r == boot_secondary(up_cpu, op_ret) IN
       /\ ret' = r
       /\ att' = [att EXCEPT !.op_ret = IF cpu_ops[up_cpu].cpu_boot
                                          THEN op_ret ELSE "none",
                             !.released = (r = "0")]
       /\ IF r = "0"
             THEN /\ pc' = "wait"
                  /\ spc' = [spc EXCEPT ![up_cpu] = "early"]
             ELSE /\ pc' = "returned"
                  /\ UNCHANGED spc
    /\ UNCHANGED <<config_hotplug_cpu, secondary_data, early_cpu_boot_status,
                   cpu_running, cpus_stuck_in_kernel, up_cpu>>
    /\ UNCHANGED maskVars /\ EnumUnchanged

\* wait_for_completion_timeout(&cpu_running, ...): a pending completion is
\* consumed (done--) and the wait returns.
CpuUp_WaitCompleted ==
    /\ pc = "wait"
    /\ cpu_running > 0
    /\ cpu_running' = cpu_running - 1
    /\ att' = [att EXCEPT !.woken = "completed",
                          !.target_signalled = (spc[up_cpu] = "idle")]
    /\ pc' = "check"
    /\ UNCHANGED <<config_hotplug_cpu, secondary_data, early_cpu_boot_status,
                   cpus_stuck_in_kernel, up_cpu, ret, spc>>
    /\ UNCHANGED maskVars /\ EnumUnchanged

\* wait_for_completion_timeout(): the second passes with done still 0.
CpuUp_WaitTimeout ==
    /\ pc = "wait"
    /\ cpu_running = 0
    /\ att' = [att EXCEPT !.woken = "timeout"]
    /\ pc' = "check"
    /\ UNCHANGED <<config_hotplug_cpu, secondary_data, early_cpu_boot_status,
                   cpu_running, cpus_stuck_in_kernel, up_cpu, ret, spc>>
    /\ UNCHANGED maskVars /\ EnumUnchanged

\* Mutant: a wait that timed out is a failure whatever the online mask says.
OnlineCheck_timeout(cpu, r) ==
    IF cpu \notin cpu_online \/ att.woken = "timeout" THEN "-EIO" ELSE r

\* __cpu_up(), lines 173-180: if (!cpu_online(cpu)) ret = -EIO
OnlineCheck(cpu, r) ==
    IF cpu \notin cpu_online THEN "-EIO" ELSE r

\* __cpu_up(), lines 173-187: test the online mask, clear the handoff block.
CpuUp_CheckOnline ==
    /\ pc = "check"
    /\ ret' = OnlineCheck(up_cpu, ret)
    /\ att' = [att EXCEPT !.online_seen = (up_cpu \in cpu_online)]
    /\ secondary_data' = [secondary_data EXCEPT !.task = NULL, !.stack = NULL]
    /\ pc' = "status"
    /\ UNCHANGED <<config_hotplug_cpu, early_cpu_boot_status, cpu_running,
                   cpus_stuck_in_kernel, up_cpu, spc>>
    /\ UNCHANGED maskVars /\ EnumUnchanged

\* op_cpu_kill(): -ENOSYS without CONFIG_HOTPLUG_CPU, 0 when the core has no
\* cpu_kill method, else what cpu_ops[cpu]->cpu_kill(cpu) returns.
op_cpu_kill(cpu, kill_ret) ==
    IF ~config_hotplug_cpu THEN "-ENOSYS"
    ELSE IF ~cpu_ops[cpu].cpu_kill THEN "0"
    ELSE kill_ret

\* Mutant: the test of op_cpu_kill() is taken without the negation.
Classify_inverted(status, kill) ==
    IF status = CPU_KILL_ME THEN
        IF kill # "0"
           THEN [report |-> {"DiedDuringBoot"}, stuck |-> 0, panic |-> FALSE]
           ELSE [report |-> {"MayNotHaveShutDownCleanly", "StuckInKernel"},
                 stuck |-> 1, panic |-> FALSE]
    ELSE IF status = CPU_STUCK_IN_KERNEL THEN
        [report |-> {"StuckInKernel"}, stuck |-> 1, panic |-> FALSE]
    ELSE IF status = CPU_PANIC_KERNEL THEN
        [report |-> {}, stuck |-> 0, panic |-> TRUE]
    ELSE [report |-> {"UnknownFailureState"}, stuck |-> 0, panic |-> FALSE]

\* Mutant: a stuck core is reported but not counted.
Classify_nocount(status, kill) ==
    IF status = CPU_KILL_ME THEN
        IF kill = "0"
           THEN [report |-> {"DiedDuringBoot"}, stuck |-> 0, panic |-> FALSE]
           ELSE [report |-> {"MayNotHaveShutDownCleanly", "StuckInKernel"},
                 stuck |-> 1, panic |-> FALSE]
    ELSE IF status = CPU_STUCK_IN_KERNEL THEN
        [report |-> {"StuckInKernel"}, stuck |-> 0, panic |-> FALSE]
    ELSE IF status = CPU_PANIC_KERNEL THEN
        [report |-> {}, stuck |-> 0, panic |-> TRUE]
    ELSE [report |-> {"UnknownFailureState"}, stuck |-> 0, panic |-> FALSE]

\* __cpu_up(), lines 194-212: the switch on the status read back.  kill is
\* the result of op_cpu_kill(), which only the CPU_KILL_ME case calls.  A
\* failed kill falls through into the CPU_STUCK_IN_KERNEL case.
Classify(status, kill) ==
    IF status = CPU_KILL_ME THEN
        IF kill = "0"
           THEN [report |-> {"DiedDuringBoot"}, stuck |-> 0, panic |-> FALSE]
           ELSE [report |-> {"MayNotHaveShutDownCleanly", "StuckInKernel"},
                 stuck |-> 1, panic |-> FALSE]
    ELSE IF status = CPU_STUCK_IN_KERNEL THEN
        [report |-> {"StuckInKernel"}, stuck |-> 1, panic |-> FALSE]
    ELSE IF status = CPU_PANIC_KERNEL THEN
        [report |-> {}, stuck |-> 0, panic |-> TRUE]
    ELSE [report |-> {"UnknownFailureState"}, stuck |-> 0, panic |-> FALSE]

\* __cpu_up(), lines 188-215: read the status back, classify a failure and
\* return (or panic).
CpuUp_Classify(kill_ret) ==
    /\ pc = "status"
    /\ LET first == secondary_data.status
           entered == ret # "0" /\ first # 0
           status == IF first = CPU_MMU_OFF THEN early_cpu_boot_status
                     ELSE first
           kill == op_cpu_kill(up_cpu, kill_ret)
           c == Classify(status, kill)
       IN IF entered THEN
              /\ att' = [att EXCEPT
                    !.word = IF first = CPU_MMU_OFF THEN "early" ELSE "normal",
                    !.status = status,
                    !.kill = IF status # CPU_KILL_ME THEN "none"
                             ELSE IF kill = "0" THEN "ok" ELSE "fail",
                    !.report = c.report]
              /\ cpus_stuck_in_kernel' = cpus_stuck_in_kernel + c.stuck
              /\ pc' = IF c.panic THEN "panic" ELSE "returned"
          ELSE
              /\ att' = [att EXCEPT !.status = first]
              /\ pc' = "returned"
              /\ UNCHANGED cpus_stuck_in_kernel
    /\ UNCHANGED <<config_hotplug_cpu, secondary_data, early_cpu_boot_status,
                   cpu_running, up_cpu, ret, spc>>
    /\ UNCHANGED maskVars /\ EnumUnchanged

(***************************************************************************)
(* Bring-up: the released secondary core                                   *)
(***************************************************************************)
OrchestratorUnchanged == UNCHANGED <<pc, up_cpu, ret, att>>

\* The early boot path (head.S, before secondary_start_kernel) can find the
\* core unusable: it records why in __early_cpu_boot_status and parks.
Secondary_EarlyFail(cpu, val) ==
    /\ spc[cpu] = "early"
    /\ early_cpu_boot_status' = val
    /\ spc' = [spc EXCEPT ![cpu] = "parked"]
    /\ UNCHANGED <<config_hotplug_cpu, secondary_data, cpu_running,
                   cpus_stuck_in_kernel>>
    /\ OrchestratorUnchanged /\ UNCHANGED maskVars /\ EnumUnchanged

\* secondary_start_kernel(), lines 222-276: everything up to the status
\* update.  check_local_cpu_capabilities() may end in cpu_die_early(), and
\* it or verify_cpu_run_el() in cpu_panic_kernel(), which sets
\* CPU_PANIC_KERNEL and parks.
Secondary_Checks(cpu, outcome) ==
    /\ spc[cpu] = "early"
    /\ IF outcome = "panic" THEN
            /\ update_cpu_boot_status(CPU_PANIC_KERNEL)
            /\ spc' = [spc EXCEPT ![cpu] = "parked"]
       ELSE IF outcome = "die_early" THEN
            /\ spc' = [spc EXCEPT ![cpu] = "die_early"]
            /\ UNCHANGED secondary_data
       ELSE
            /\ spc' = [spc EXCEPT ![cpu] = "checked"]
            /\ UNCHANGED secondary_data
    /\ UNCHANGED <<config_hotplug_cpu, early_cpu_boot_status, cpu_running,
                   cpus_stuck_in_kernel>>
    /\ OrchestratorUnchanged /\ UNCHANGED maskVars /\ EnumUnchanged

\* secondary_start_kernel(), line 277
Secondary_BootSuccess(cpu) ==
    /\ spc[cpu] = "checked"
    /\ update_cpu_boot_status(CPU_BOOT_SUCCESS)
    /\ spc' = [spc EXCEPT ![cpu] = "status_written"]
    /\ UNCHANGED <<config_hotplug_cpu, early_cpu_boot_status, cpu_running,
                   cpus_stuck_in_kernel>>
    /\ OrchestratorUnchanged /\ UNCHANGED maskVars /\ EnumUnchanged

\* Mutant: the core is marked online before it writes CPU_BOOT_SUCCESS.
Secondary_SetOnline_first(cpu) ==
    /\ spc[cpu] = "checked"
    /\ cpu_online' = cpu_online \cup {cpu}
    /\ spc' = [spc EXCEPT ![cpu] = "online"]
    /\ UNCHANGED <<config_hotplug_cpu, secondary_data, early_cpu_boot_status,
                   cpu_running, cpus_stuck_in_kernel>>
    /\ UNCHANGED <<cpu_ops, cpu_possible, cpu_present>>
    /\ OrchestratorUnchanged /\ EnumUnchanged

\* secondary_start_kernel(), line 278: set_cpu_online(cpu, true)
Secondary_SetOnline(cpu) ==
    /\ spc[cpu] = "status_written"
    /\ cpu_online' = cpu_online \cup {cpu}
    /\ spc' = [spc EXCEPT ![cpu] = "online"]
    /\ UNCHANGED <<config_hotplug_cpu, secondary_data, early_cpu_boot_status,
                   cpu_running, cpus_stuck_in_kernel>>
    /\ UNCHANGED <<cpu_ops, cpu_possible, cpu_present>>
    /\ OrchestratorUnchanged /\ EnumUnchanged

\* secondary_start_kernel(), lines 279-287: complete(&cpu_running), then
\* the idle loop.
Secondary_Complete(cpu) ==
    /\ spc[cpu] = "online"
    /\ cpu_running' = cpu_running + 1
    /\ spc' = [spc EXCEPT ![cpu] = "idle"]
    /\ UNCHANGED <<config_hotplug_cpu, secondary_data, early_cpu_boot_status,
                   cpus_stuck_in_kernel>>
    /\ OrchestratorUnchanged /\ UNCHANGED maskVars /\ EnumUnchanged

\* cpu_die_early(), line 416: set_cpu_present(cpu, 0)
DieEarly_Absent(cpu) ==
    /\ spc[cpu] = "die_early"
    /\ cpu_present' = cpu_present \ {cpu}
    /\ spc' = [spc EXCEPT ![cpu] = IF config_hotplug_cpu THEN "absent"
                                   ELSE "no_park"]
    /\ UNCHANGED <<config_hotplug_cpu, secondary_data, early_cpu_boot_status,
                   cpu_running, cpus_stuck_in_kernel>>
    /\ UNCHANGED <<cpu_ops, cpu_possible, cpu_online>>
    /\ OrchestratorUnchanged /\ EnumUnchanged

\* Mutant: the core reports itself stuck where it should ask to be killed.
DieEarly_KillMe_stuck(cpu) ==
    /\ spc[cpu] = "absent"
    /\ update_cpu_boot_status(CPU_STUCK_IN_KERNEL)
    /\ spc' = [spc EXCEPT ![cpu] = "kill_me"]
    /\ UNCHANGED <<config_hotplug_cpu, early_cpu_boot_status, cpu_running,
                   cpus_stuck_in_kernel>>
    /\ OrchestratorUnchanged /\ UNCHANGED maskVars /\ EnumUnchanged

\* cpu_die_early(), line 419 (CONFIG_HOTPLUG_CPU)
DieEarly_KillMe(cpu) ==
    /\ spc[cpu] = "absent"
    /\ update_cpu_boot_status(CPU_KILL_ME)
    /\ spc' = [spc EXCEPT ![cpu] = "kill_me"]
    /\ UNCHANGED <<config_hotplug_cpu, early_cpu_boot_status, cpu_running,
                   cpus_stuck_in_kernel>>
    /\ OrchestratorUnchanged /\ UNCHANGED maskVars /\ EnumUnchanged

\* cpu_die_early(), lines 421-422 (CONFIG_HOTPLUG_CPU): with a cpu_die method
\* the core parks itself through it; a cpu_die that fails returns.
DieEarly_Die(cpu, dies) ==
    /\ spc[cpu] = "kill_me"
    /\ spc' = [spc EXCEPT ![cpu] =
                 IF cpu_ops[cpu].set /\ cpu_ops[cpu].cpu_die /\ dies
                    THEN "dead" ELSE "no_park"]
    /\ UNCHANGED <<config_hotplug_cpu, secondary_data, early_cpu_boot_status,
                   cpu_running, cpus_stuck_in_kernel>>
    /\ OrchestratorUnchanged /\ UNCHANGED maskVars /\ EnumUnchanged

\* cpu_die_early(), lines 424-426: CPU_STUCK_IN_KERNEL, then cpu_park_loop()
DieEarly_Stuck(cpu) ==
    /\ spc[cpu] = "no_park"
    /\ update_cpu_boot_status(CPU_STUCK_IN_KERNEL)
    /\ spc' = [spc EXCEPT ![cpu] = "parked"]
    /\ UNCHANGED <<config_hotplug_cpu, early_cpu_boot_status, cpu_running,
                   cpus_stuck_in_kernel>>
    /\ OrchestratorUnchanged /\ UNCHANGED maskVars /\ EnumUnchanged

\* What a secondary's enable method may provide: the two of EnableMethods,
\* or one without even a cpu_boot method.
BootOpsChoices ==
    {SpinTableOps, PsciOps,
     [set |-> TRUE, cpu_boot |-> FALSE, cpu_die |-> FALSE,
      cpu_kill |-> FALSE, cpu_disable |-> FALSE]}

\* State when smp_init() starts calling __cpu_up(): smp_init_cpus() and
\* smp_prepare_cpus() have made every secondary possible and present with
\* its cpu_ops read; only the boot CPU is online.
Init ==
    /\ acpi_disabled = TRUE
    /\ nr_cpu_ids = NR_CPUS
    /\ cpu_logical_map = [c \in Cpus |-> 0]
    /\ cpu_count = NR_CPUS
    /\ bootcpu_valid = TRUE
    /\ epc = "done"
    /\ init_i = NR_CPUS
    /\ nrecords = 0
    /\ rec = [reg |-> NoReg, usable |-> FALSE]
    /\ last = "none"
    /\ accepted = <<>>
    /\ init_called = Secondaries
    /\ cpu_ops \in [Cpus -> BootOpsChoices]
    /\ cpu_ops[0] = PsciOps
    /\ cpu_possible = Cpus
    /\ cpu_present = Cpus
    /\ cpu_online = {0}
    /\ config_hotplug_cpu \in BOOLEAN
    /\ BootVarsAtRest
    /\ prepared = TRUE
    /\ LifeVarsAtRest
    /\ system_state = "SYSTEM_BOOTING"
    /\ IpiVarsAtRest

ErrnoValues == {"0", "-EINVAL"}

Next ==
    \/ \E cpu \in Secondaries : CpuUp_Begin(cpu)
    \/ \E op_ret \in ErrnoValues : CpuUp_Boot(op_ret)
    \/ CpuUp_WaitCompleted
    \/ CpuUp_WaitTimeout
    \/ CpuUp_CheckOnline
    \/ \E kill_ret \in ErrnoValues : CpuUp_Classify(kill_ret)
    \/ \E cpu \in Secondaries,
          val \in {CPU_STUCK_IN_KERNEL, CPU_PANIC_KERNEL} :
          Secondary_EarlyFail(cpu, val)
    \/ \E cpu \in Secondaries, outcome \in {"ok", "die_early", "panic"} :
          Secondary_Checks(cpu, outcome)
    \/ \E cpu \in Secondaries : Secondary_BootSuccess(cpu)
    \/ \E cpu \in Secondaries : Secondary_SetOnline(cpu)
    \/ \E cpu \in Secondaries : Secondary_Complete(cpu)
    \/ \E cpu \in Secondaries : DieEarly_Absent(cpu)
    \/ \E cpu \in Secondaries : DieEarly_KillMe(cpu)
    \/ \E cpu \in Secondaries, dies \in BOOLEAN : DieEarly_Die(cpu, dies)
    \/ \E cpu \in Secondaries : DieEarly_Stuck(cpu)

Spec == Init /\ [][Next]_vars

(***************************************************************************)
(* Life cycle: smp_prepare_cpus(), activation, hotplug teardown, stop      *)
(***************************************************************************)
\* What the life-cycle actions leave alone.
LifeUnchanged == UNCHANGED <<enumVars, ipiVars>>
TeardownUnchanged ==
    UNCHANGED <<bootVars, prepared, stopped, stuck_query, cpu_ops,
                cpu_possible, cpu_present, enumVars, ipiVars>>

\* Mutant: every core with cpu_ops is made present, possible or not.
PreparePresent_all(failed) ==
    {cpu \in Cpus : cpu # 0 /\ cpu_ops[cpu].set /\ cpu \notin failed}

\* smp_prepare_cpus(), lines 732-748: the cores the loop marks present:
\* possible, not the running one, with cpu_ops, and cpu_prepare() succeeded.
PreparePresent(failed) ==
    {cpu \in cpu_possible : cpu # 0 /\ cpu_ops[cpu].set /\ cpu \notin failed}

\* smp_prepare_cpus(max_cpus) on the boot CPU; failed is the set of cores
\* whose cpu_ops[cpu]->cpu_prepare(cpu) returns an error.
smp_prepare_cpus(max_cpus, failed) ==
    /\ ~prepared
    /\ prepared' = TRUE
    /\ cpu_present' = IF max_cpus = 0 THEN cpu_present
                      ELSE cpu_present \cup PreparePresent(failed)
    /\ UNCHANGED <<cpu_ops, cpu_possible, cpu_online>>
    /\ UNCHANGED <<cpu_active, stopped, irq_disabled, death_reported,
                   irqs_migrated, dpc, hp, stuck_query>>
    /\ UNCHANGED bootVars /\ LifeUnchanged

\* No cpu_up() or cpu_down() is under way: the hotplug lock is free.  A
\* cpu_up() whose __cpu_up() returned 0 goes on to activate the core.
HotplugLockFree ==
    /\ prepared
    /\ pc \in {"idle", "returned"}
    /\ hp.cpc \in {"none", "done"}
    /\ (pc = "returned" /\ ret = "0" /\ up_cpu \in cpu_online
          /\ up_cpu \notin stopped)
         => up_cpu \in cpu_active

\* __cpu_up() as called by cpu_up(), under the hotplug lock.
Life_CpuUp_Begin(cpu) ==
    /\ HotplugLockFree
    /\ CpuUp_Begin(cpu)

\* The core of a successful __cpu_up() is made active by the caller.
sched_cpu_activate(cpu) ==
    /\ pc = "returned" /\ ret = "0" /\ up_cpu = cpu
    /\ hp.cpc \in {"none", "done"}
    /\ cpu \in cpu_online /\ cpu \notin cpu_active /\ cpu \notin stopped
    /\ cpu_active' = cpu_active \cup {cpu}
    /\ UNCHANGED <<prepared, stopped, irq_disabled, death_reported,
                   irqs_migrated, dpc, hp, stuck_query>>
    /\ UNCHANGED <<bootVars, maskVars>> /\ LifeUnchanged

\* cpu_down(cpu) starts: the last online core is never taken down, and the
\* core is made inactive before __cpu_disable() runs on it.
sched_cpu_deactivate(cpu) ==
    /\ config_hotplug_cpu
    /\ HotplugLockFree
    /\ cpu \in cpu_online /\ cpu \in cpu_active /\ cpu \notin stopped
    /\ dpc[cpu] = "run"
    /\ Cardinality(cpu_online) > 1
    /\ cpu_active' = cpu_active \ {cpu}
    /\ hp' = [NoTeardown EXCEPT !.cpu = cpu, !.cpc = "deact"]
    /\ UNCHANGED <<irq_disabled, death_reported, irqs_migrated, dpc,
                   cpu_online>>
    /\ TeardownUnchanged

\* Mutant: the cpu_die method is not asked for.
op_cpu_disable_nodie(cpu, hook_ret) ==
    IF ~cpu_ops[cpu].set THEN "-EOPNOTSUPP"
    ELSE IF cpu_ops[cpu].cpu_disable THEN hook_ret
    ELSE "0"

\* op_cpu_disable(): hook_ret is what cpu_ops[cpu]->cpu_disable(cpu) returns.
op_cpu_disable(cpu, hook_ret) ==
    IF ~cpu_ops[cpu].set \/ ~cpu_ops[cpu].cpu_die THEN "-EOPNOTSUPP"
    ELSE IF cpu_ops[cpu].cpu_disable THEN hook_ret
    ELSE "0"

\* __cpu_disable(), lines 313-327, on the core to be shut down: an error of
\* op_cpu_disable() is returned, else the core is taken offline.
CpuDisable_Offline(hook_ret) ==
    /\ hp.cpc = "deact" /\ hp.cpu \notin stopped
    /\ LET r == op_cpu_disable(hp.cpu, hook_ret) IN
       /\ hp' = [hp EXCEPT !.ret = r,
                           !.cpc = IF r = "0" THEN "offline" ELSE "refused"]
       /\ cpu_online' = IF r = "0" THEN cpu_online \ {hp.cpu} ELSE cpu_online
    /\ UNCHANGED <<cpu_active, irq_disabled, death_reported, irqs_migrated,
                   dpc>>
    /\ TeardownUnchanged

\* __cpu_disable(), lines 329-333: irq_migrate_all_off_this_cpu(); return 0
CpuDisable_Migrate ==
    /\ hp.cpc = "offline" /\ hp.cpu \notin stopped
    /\ irqs_migrated' = irqs_migrated \cup {hp.cpu}
    /\ hp' = [hp EXCEPT !.cpc = "disabled"]
    /\ UNCHANGED <<cpu_active, irq_disabled, death_reported, dpc,
                   cpu_online>>
    /\ TeardownUnchanged

\* cpu_down() after __cpu_disable() returned an error: the core stays up and
\* is made active again.
cpu_down_rollback ==
    /\ hp.cpc = "refused"
    /\ cpu_active' = IF hp.cpu \in stopped THEN cpu_active
                     ELSE cpu_active \cup {hp.cpu}
    /\ hp' = [hp EXCEPT !.cpc = "done"]
    /\ UNCHANGED <<irq_disabled, death_reported, irqs_migrated, dpc,
                   cpu_online>>
    /\ TeardownUnchanged

\* cpu_die(), lines 383-389, on the idle thread of the core that was shut
\* down: idle_task_exit(); local_irq_disable()
CpuDie_IrqDisable(cpu) ==
    /\ cpu \in irqs_migrated /\ cpu \notin cpu_online
    /\ dpc[cpu] = "run" /\ cpu \notin stopped
    /\ irq_disabled' = irq_disabled \cup {cpu}
    /\ dpc' = [dpc EXCEPT ![cpu] = "irqoff"]
    /\ UNCHANGED <<cpu_active, death_reported, irqs_migrated, hp, cpu_online>>
    /\ TeardownUnchanged

\* cpu_die(), lines 391-392: (void)cpu_report_death()
CpuDie_ReportDeath(cpu) ==
    /\ dpc[cpu] = "irqoff"
    /\ death_reported' = death_reported \cup {cpu}
    /\ dpc' = [dpc EXCEPT ![cpu] = "reported"]
    /\ UNCHANGED <<cpu_active, irq_disabled, irqs_migrated, hp, cpu_online>>
    /\ TeardownUnchanged

\* cpu_die(), lines 394-401: cpu_ops[cpu]->cpu_die(cpu), which must not
\* return; if it does, BUG().
CpuDie_Die(cpu, returns) ==
    /\ dpc[cpu] = "reported"
    /\ dpc' = [dpc EXCEPT ![cpu] = IF returns THEN "bug" ELSE "dead"]
    /\ UNCHANGED <<cpu_active, irq_disabled, death_reported, irqs_migrated,
                   hp, cpu_online>>
    /\ TeardownUnchanged

\* cpu_wait_death(cpu, 5): true when the core reported its death within the
\* five seconds.
cpu_wait_death(cpu) == cpu \in death_reported

\* Mutant: the kill is attempted whatever the wait returned.
KillAfterWait_always(dead) == TRUE

\* __cpu_die(), lines 357-360: if (!cpu_wait_death(cpu, 5)) return;
KillAfterWait(dead) == dead

\* __cpu_die(), lines 353-361, on the thread that asked for the shutdown:
\* the bounded wait for the death report.
CpuDie_Wait ==
    /\ hp.cpc = "disabled"
    /\ LET dead == cpu_wait_death(hp.cpu) IN
       hp' = [hp EXCEPT !.waited = IF dead THEN "dead" ELSE "timeout",
                        !.cpc = IF KillAfterWait(dead) THEN "kill" ELSE "done"]
    /\ UNCHANGED <<cpu_active, irq_disabled, death_reported, irqs_migrated,
                   dpc, cpu_online>>
    /\ TeardownUnchanged

\* __cpu_die(), lines 369-372: err = op_cpu_kill(cpu); an error is logged.
CpuDie_Kill(kill_ret) ==
    /\ hp.cpc = "kill"
    /\ LET err == op_cpu_kill(hp.cpu, kill_ret) IN
       hp' = [hp EXCEPT !.kill = IF err = "0" THEN "ok" ELSE "fail",
                        !.cpc = "done"]
    /\ UNCHANGED <<cpu_active, irq_disabled, death_reported, irqs_migrated,
                   dpc, cpu_online>>
    /\ TeardownUnchanged

\* Mutant: the core is made inactive only when the dump is produced.
StopInactive_ifdump(cpu) ==
    IF system_state \in {"SYSTEM_BOOTING", "SYSTEM_RUNNING"}
       THEN cpu_active \ {cpu} ELSE cpu_active

\* ipi_cpu_stop(), line 853: set_cpu_active(cpu, false)
StopInactive(cpu) == cpu_active \ {cpu}

\* ipi_cpu_stop(cpu, regs): the dump while the system is booting or running,
\* then the core is made inactive, disables its interrupts and spins.
ipi_cpu_stop(cpu) ==
    /\ dumped' = IF system_state \in {"SYSTEM_BOOTING", "SYSTEM_RUNNING"}
                 THEN dumped \cup {<<"stop", cpu>>} ELSE dumped
    /\ cpu_active' = StopInactive(cpu)
    /\ irq_disabled' = irq_disabled \cup {cpu}
    /\ stopped' = stopped \cup {cpu}

\* handle_IPI(IPI_CPU_STOP) on a secondary that runs with interrupts on.
Life_Stop(cpu) ==
    /\ prepared
    /\ cpu \in cpu_online /\ cpu \notin stopped
    /\ spc[cpu] = "idle" /\ dpc[cpu] = "run"
    /\ ipi_cpu_stop(cpu)
    /\ UNCHANGED <<prepared, death_reported, irqs_migrated, dpc, hp,
                   stuck_query>>
    /\ UNCHANGED <<system_state, pending_ipi, ipi_raised, ncalls, snd, stp,
                   backtrace_flag, backtrace_mask, bt, bt_i, backtrace_lock,
                   last_bt>>
    /\ UNCHANGED <<bootVars, maskVars, enumVars>>

\* have_cpu_die(): the cpu_ops of the core that runs the query.
have_cpu_die(any_cpu) ==
    /\ config_hotplug_cpu
    /\ cpu_ops[any_cpu].set /\ cpu_ops[any_cpu].cpu_die

\* cpus_are_stuck_in_kernel() evaluated on any_cpu
cpus_are_stuck_in_kernel(any_cpu) ==
    LET smp_spin_tables == /\ Cardinality(cpu_possible) > 1
                           /\ ~have_cpu_die(any_cpu)
    IN cpus_stuck_in_kernel # 0 \/ smp_spin_tables

\* A call of cpus_are_stuck_in_kernel() on a running core, between hotplug
\* operations.
StuckQuery(any_cpu) ==
    /\ HotplugLockFree
    /\ any_cpu \in cpu_online /\ any_cpu \notin stopped
    /\ dpc[any_cpu] = "run"
    /\ stuck_query' = [asked |-> TRUE, cpu |-> any_cpu,
                       stuck |-> cpus_stuck_in_kernel,
                       result |-> cpus_are_stuck_in_kernel(any_cpu)]
    /\ stuck_query' # stuck_query
    /\ UNCHANGED <<prepared, cpu_active, stopped, irq_disabled,
                   death_reported, irqs_migrated, dpc, hp>>
    /\ UNCHANGED <<bootVars, maskVars>> /\ LifeUnchanged

\* An enable method with cpu_die but neither cpu_kill nor cpu_disable.
DieOnlyOps == [set |-> TRUE, cpu_boot |-> TRUE, cpu_die |-> TRUE,
               cpu_kill |-> FALSE, cpu_disable |-> FALSE]
LifeOpsChoices == {SpinTableOps, PsciOps, DieOnlyOps}

\* highest logical index smp_init_cpus() made possible
MaxLifeCpu == 1

\* State when smp_init_cpus() has returned: the boot CPU is possible,
\* present, online and active; smp_cpu_setup() made a secondary possible
\* only with its cpu_ops read and cpu_init() done, and a core it gave up
\* may be left with or without cpu_ops.  CPU 0 may have no cpu_ops.
InitLife ==
    /\ acpi_disabled = TRUE
    /\ nr_cpu_ids = NR_CPUS
    /\ cpu_logical_map = [c \in Cpus |-> 0]
    /\ cpu_count = NR_CPUS
    /\ bootcpu_valid = TRUE
    /\ epc = "done"
    /\ init_i = NR_CPUS
    /\ nrecords = 0
    /\ rec = [reg |-> NoReg, usable |-> FALSE]
    /\ last = "none"
    /\ accepted = <<>>
    /\ init_called = Secondaries
    /\ cpu_possible \in {S \in SUBSET (0 .. MaxLifeCpu) : 0 \in S}
    /\ cpu_ops \in [Cpus -> LifeOpsChoices \cup {NoOps}]
    /\ cpu_ops[0] \in {PsciOps, NoOps}
    /\ \A c \in Secondaries :
          IF c \in cpu_possible THEN cpu_ops[c].set
          ELSE IF c <= MaxLifeCpu THEN cpu_ops[c] \in {PsciOps, NoOps}
          ELSE cpu_ops[c] = NoOps
    /\ cpu_present = {0}
    /\ cpu_online = {0}
    /\ config_hotplug_cpu \in BOOLEAN
    /\ BootVarsAtRest
    /\ prepared = FALSE
    /\ LifeVarsAtRest
    /\ system_state = "SYSTEM_RUNNING"
    /\ IpiVarsAtRest

NextLife ==
    \/ \E max_cpus \in {0, NR_CPUS}, failed \in SUBSET Secondaries :
          smp_prepare_cpus(max_cpus, failed)
    \/ \E cpu \in Secondaries : Life_CpuUp_Begin(cpu)
    \/ \E op_ret \in ErrnoValues : CpuUp_Boot(op_ret)
    \/ CpuUp_WaitCompleted
    \/ CpuUp_WaitTimeout
    \/ CpuUp_CheckOnline
    \/ \E kill_ret \in ErrnoValues : CpuUp_Classify(kill_ret)
    \/ \E cpu \in Secondaries,
          val \in {CPU_STUCK_IN_KERNEL, CPU_PANIC_KERNEL} :
          Secondary_EarlyFail(cpu, val)
    \/ \E cpu \in Secondaries, outcome \in {"ok", "die_early", "panic"} :
          Secondary_Checks(cpu, outcome)
    \/ \E cpu \in Secondaries : Secondary_BootSuccess(cpu)
    \/ \E cpu \in Secondaries : Secondary_SetOnline(cpu)
    \/ \E cpu \in Secondaries : Secondary_Complete(cpu)
    \/ \E cpu \in Secondaries : DieEarly_Absent(cpu)
    \/ \E cpu \in Secondaries : DieEarly_KillMe(cpu)
    \/ \E cpu \in Secondaries, dies \in BOOLEAN : DieEarly_Die(cpu, dies)
    \/ \E cpu \in Secondaries : DieEarly_Stuck(cpu)
    \/ \E cpu \in Secondaries : sched_cpu_activate(cpu)
    \/ \E cpu \in Cpus : sched_cpu_deactivate(cpu)
    \/ \E hook_ret \in ErrnoValues : CpuDisable_Offline(hook_ret)
    \/ CpuDisable_Migrate
    \/ cpu_down_rollback
    \/ \E cpu \in Cpus : CpuDie_IrqDisable(cpu)
    \/ \E cpu \in Cpus : CpuDie_ReportDeath(cpu)
    \/ \E cpu \in Cpus, returns \in BOOLEAN : CpuDie_Die(cpu, returns)
    \/ CpuDie_Wait
    \/ \E kill_ret \in ErrnoValues : CpuDie_Kill(kill_ret)
    \/ \E cpu \in Secondaries : Life_Stop(cpu)

SpecLife == InitLife /\ [][NextLife]_vars

\* cpus_are_stuck_in_kernel() is a function of the possible mask, the
\* cpu_ops of the asking core, the build and the stuck counter: every
\* combination of them, with all possible cores up and running.
InitQuery ==
    /\ acpi_disabled = TRUE
    /\ nr_cpu_ids = NR_CPUS
    /\ cpu_logical_map = [c \in Cpus |-> 0]
    /\ cpu_count = NR_CPUS
    /\ bootcpu_valid = TRUE
    /\ epc = "done"
    /\ init_i = NR_CPUS
    /\ nrecords = 0
    /\ rec = [reg |-> NoReg, usable |-> FALSE]
    /\ last = "none"
    /\ accepted = <<>>
    /\ init_called = Secondaries
    /\ cpu_possible \in {S \in SUBSET Cpus : 0 \in S}
    /\ cpu_ops \in [Cpus -> LifeOpsChoices \cup {NoOps}]
    /\ \A c \in Secondaries : cpu_ops[c].set <=> c \in cpu_possible
    /\ cpu_present = cpu_possible
    /\ cpu_online = cpu_possible
    /\ config_hotplug_cpu \in BOOLEAN
    /\ secondary_data = [task |-> NULL, stack |-> NULL,
                         status |-> CPU_BOOT_SUCCESS]
    /\ early_cpu_boot_status = CPU_BOOT_SUCCESS
    /\ cpu_running = 0
    /\ cpus_stuck_in_kernel \in 0 .. (NR_CPUS - 1)
    /\ pc = "idle"
    /\ up_cpu = 0
    /\ ret = "0"
    /\ spc = [c \in Secondaries |->
                IF c \in cpu_possible THEN "idle" ELSE "off"]
    /\ att = NoAttempt
    /\ prepared = TRUE
    /\ cpu_active = cpu_online
    /\ stopped = {}
    /\ irq_disabled = {}
    /\ death_reported = {}
    /\ irqs_migrated = {}
    /\ dpc = [c \in Cpus |-> "run"]
    /\ hp = NoTeardown
    /\ stuck_query = NoQuery
    /\ system_state = "SYSTEM_RUNNING"
    /\ IpiVarsAtRest

NextQuery == \E any_cpu \in Cpus : StuckQuery(any_cpu)

SpecQuery == InitQuery /\ [][NextQuery]_vars

(***************************************************************************)
(* Inter-processor interrupts                                              *)
(***************************************************************************)
\* number of __smp_cross_call() calls in one behaviour
MaxCalls == 2
\* iterations of the busy-wait of smp_send_stop() (USEC_PER_SEC in the code)
MaxSpin == 2
\* iterations of the wait of smp_send_all_cpu_backtrace() (10 * 1000)
MaxWait == 2

\* The kinds sent through smp_cross_call_common() by the senders other than
\* smp_send_stop().
CommonKinds == IpiKinds \ {"IPI_CPU_STOP", "IPI_CPU_BACKTRACE"}

\* The cores that hold the backtrace flag, from test_and_set_bit() to
\* clear_bit().
BacktraceHolders == {c \in Cpus : bt[c] # "none"}

\* A core runs one of the two senders with its interrupts off: an IPI
\* raised for it is taken when the sender has returned.
InSender(cpu) ==
    \/ bt[cpu] # "none"
    \/ cpu \in backtrace_lock
    \/ stp.pc \in {"sending", "wait"} /\ stp.cpu = cpu

\* Room for one more __smp_cross_call(), counting the ones on their way.
CallBudget ==
    ncalls + (IF snd.pc = "marked" THEN 1 ELSE 0)
           + Cardinality({c \in Cpus : bt[c] \in {"got", "dumping", "dumped"}})
        < MaxCalls

IpiUnchanged == UNCHANGED <<enumVars, bootVars, maskVars>>
IpiLifeUnchanged ==
    UNCHANGED <<prepared, death_reported, irqs_migrated, dpc, hp,
                stuck_query>>

\* smp_cross_call(target, ipinr): __smp_cross_call() raises the interrupt
\* on every core of the mask.
smp_cross_call(target, ipinr) ==
    /\ ipi_raised' = [c \in Cpus |-> IF c \in target
                                     THEN ipi_raised[c] \cup {ipinr}
                                     ELSE ipi_raised[c]]
    /\ ncalls' = ncalls + 1

\* Mutant: the cross call is made without marking the targets.
MarkPending_skip(cpumask) == pending_ipi

\* smp_cross_call_common(), lines 778-779: per_cpu(pending_ipi, cpu) = true
\* for every core of the mask.
MarkPending(cpumask) == pending_ipi \cup cpumask

\* smp_cross_call_common(cpumask, func) called by one of the senders
\* (arch_send_call_function_ipi_mask, arch_send_wakeup_ipi_mask,
\* smp_send_reschedule, tick_broadcast, arch_irq_work_raise): its loop.
CrossCallCommon_Mark(cpumask, func) ==
    /\ snd.pc = "none" /\ CallBudget
    /\ pending_ipi' = MarkPending(cpumask)
    /\ snd' = [pc |-> "marked", mask |-> cpumask, kind |-> func]
    /\ UNCHANGED <<system_state, ipi_raised, ncalls, stp, backtrace_flag,
                   backtrace_mask, bt, bt_i, backtrace_lock, dumped,
                   last_bt>>
    /\ UNCHANGED <<cpu_active, stopped, irq_disabled>>
    /\ IpiLifeUnchanged /\ IpiUnchanged

\* smp_send_reschedule(cpu), lines 992-997: BUG_ON(cpu_is_offline(cpu)),
\* then smp_cross_call_common(cpumask_of(cpu), IPI_RESCHEDULE).
smp_send_reschedule(cpu) ==
    /\ cpu \in cpu_online
    /\ CrossCallCommon_Mark({cpu}, "IPI_RESCHEDULE")

\* smp_cross_call_common(), line 781: smp_cross_call(cpumask, func), also
\* for the call made by smp_send_stop().
CrossCallCommon_Call ==
    /\ snd.pc = "marked"
    /\ smp_cross_call(snd.mask, snd.kind)
    /\ snd' = NoSend
    /\ stp' = IF stp.pc = "sending"
              THEN [stp EXCEPT !.pc = "wait", !.sent = TRUE] ELSE stp
    /\ UNCHANGED <<system_state, pending_ipi, backtrace_flag, backtrace_mask,
                   bt, bt_i, backtrace_lock, dumped, last_bt>>
    /\ UNCHANGED <<cpu_active, stopped, irq_disabled>>
    /\ IpiLifeUnchanged /\ IpiUnchanged

\* handle_IPI(IPI_CPU_STOP) on cpu: ipi_cpu_stop() never returns, so the
\* end of handle_IPI() is not reached.
HandleIPI_Stop(cpu) ==
    /\ "IPI_CPU_STOP" \in ipi_raised[cpu]
    /\ cpu \notin stopped /\ ~InSender(cpu)
    /\ ipi_raised' = [ipi_raised EXCEPT ![cpu] = @ \ {"IPI_CPU_STOP"}]
    /\ ipi_cpu_stop(cpu)
    /\ UNCHANGED <<system_state, pending_ipi, ncalls, snd, stp,
                   backtrace_flag, backtrace_mask, bt, bt_i, backtrace_lock,
                   last_bt>>
    /\ IpiLifeUnchanged /\ IpiUnchanged

\* ipi_cpu_backtrace(cpu, regs), lines 904-908: a core of backtrace_mask
\* takes backtrace_lock and starts on show_regs(); a core that finds the
\* lock taken spins until it is free.
ipi_cpu_backtrace(cpu) ==
    IF cpu \in backtrace_mask
       THEN /\ backtrace_lock = {}
            /\ backtrace_lock' = {cpu}
            /\ UNCHANGED pending_ipi
       ELSE /\ pending_ipi' = pending_ipi \ {cpu}
            /\ UNCHANGED backtrace_lock

\* handle_IPI(IPI_CPU_BACKTRACE) on cpu: into ipi_cpu_backtrace(), and
\* through to the clearing of pending_ipi at the end of handle_IPI() when
\* the core is not in backtrace_mask.
HandleIPI_Backtrace(cpu) ==
    /\ "IPI_CPU_BACKTRACE" \in ipi_raised[cpu]
    /\ cpu \notin stopped /\ ~InSender(cpu)
    /\ ipi_raised' = [ipi_raised EXCEPT ![cpu] = @ \ {"IPI_CPU_BACKTRACE"}]
    /\ ipi_cpu_backtrace(cpu)
    /\ UNCHANGED <<system_state, ncalls, snd, stp, backtrace_flag,
                   backtrace_mask, bt, bt_i, dumped, last_bt>>
    /\ UNCHANGED <<cpu_active, stopped, irq_disabled>>
    /\ IpiLifeUnchanged /\ IpiUnchanged

\* ipi_cpu_backtrace(), lines 909-911, and the end of handle_IPI(): show_regs()
\* is over, the lock is released, the core leaves backtrace_mask and
\* pending_ipi is cleared.
HandleIPI_BacktraceEnd(cpu) ==
    /\ cpu \in backtrace_lock
    /\ backtrace_lock' = backtrace_lock \ {cpu}
    /\ backtrace_mask' = backtrace_mask \ {cpu}
    /\ pending_ipi' = pending_ipi \ {cpu}
    /\ UNCHANGED <<system_state, ipi_raised, ncalls, snd, stp,
                   backtrace_flag, bt, bt_i, dumped, last_bt>>
    /\ UNCHANGED <<cpu_active, stopped, irq_disabled>>
    /\ IpiLifeUnchanged /\ IpiUnchanged

\* handle_IPI(ipinr) for the kinds handed to the scheduler, the function
\* call queue, the timer or irq_work, and IPI_WAKEUP: pending_ipi is cleared
\* at the end.
HandleIPI_Other(cpu, ipinr) ==
    /\ ipinr \in CommonKinds /\ ipinr \in ipi_raised[cpu]
    /\ cpu \notin stopped /\ ~InSender(cpu)
    /\ ipi_raised' = [ipi_raised EXCEPT ![cpu] = @ \ {ipinr}]
    /\ pending_ipi' = pending_ipi \ {cpu}
    /\ UNCHANGED <<system_state, ncalls, snd, stp, backtrace_flag,
                   backtrace_mask, bt, bt_i, backtrace_lock, dumped, last_bt>>
    /\ UNCHANGED <<cpu_active, stopped, irq_disabled>>
    /\ IpiLifeUnchanged /\ IpiUnchanged

\* Mutant: the calling core is left in the mask.
StopMask_self(cpu) == cpu_online

\* smp_send_stop(), lines 1031-1032: the online cores but the calling one
StopMask(cpu) == cpu_online \ {cpu}

\* smp_send_stop(), lines 1024-1037, on core cpu: with another core online
\* the mask is built and smp_cross_call_common() marks it; without, nothing
\* is sent.
SendStop_Begin(cpu) ==
    /\ stp.pc = "none" /\ snd.pc = "none" /\ CallBudget
    /\ cpu \notin stopped /\ ~InSender(cpu)
    /\ IF Cardinality(cpu_online \ {cpu}) # 0
          THEN /\ stp' = [NoStop EXCEPT !.pc = "sending", !.cpu = cpu,
                                        !.mask = StopMask(cpu),
                                        !.timeout = MaxSpin]
               /\ pending_ipi' = MarkPending(StopMask(cpu))
               /\ snd' = [pc |-> "marked", mask |-> StopMask(cpu),
                          kind |-> "IPI_CPU_STOP"]
          ELSE /\ stp' = [NoStop EXCEPT !.pc = "wait", !.cpu = cpu,
                                        !.timeout = MaxSpin]
               /\ UNCHANGED <<pending_ipi, snd>>
    /\ UNCHANGED <<system_state, ipi_raised, ncalls, backtrace_flag,
                   backtrace_mask, bt, bt_i, backtrace_lock, dumped, last_bt>>
    /\ UNCHANGED <<cpu_active, stopped, irq_disabled>>
    /\ IpiLifeUnchanged /\ IpiUnchanged

\* num_other_active_cpus() on the core that runs smp_send_stop()
num_other_active_cpus(cpu) == Cardinality(cpu_active \ {cpu})

\* smp_send_stop(), lines 1041-1043: one turn of
\* while (num_other_active_cpus() && timeout--) udelay(1);
SendStop_Spin ==
    /\ stp.pc = "wait"
    /\ num_other_active_cpus(stp.cpu) # 0 /\ stp.timeout # 0
    /\ stp' = [stp EXCEPT !.timeout = @ - 1]
    /\ UNCHANGED <<system_state, pending_ipi, ipi_raised, ncalls, snd,
                   backtrace_flag, backtrace_mask, bt, bt_i, backtrace_lock,
                   dumped, last_bt>>
    /\ UNCHANGED <<cpu_active, stopped, irq_disabled>>
    /\ IpiLifeUnchanged /\ IpiUnchanged

\* smp_send_stop(), lines 1042-1047: the loop ends, a warning is printed if
\* another core is still active, and the function returns.
SendStop_Return ==
    /\ stp.pc = "wait"
    /\ num_other_active_cpus(stp.cpu) = 0 \/ stp.timeout = 0
    /\ stp' = [stp EXCEPT !.pc = "done"]
    /\ UNCHANGED <<system_state, pending_ipi, ipi_raised, ncalls, snd,
                   backtrace_flag, backtrace_mask, bt, bt_i, backtrace_lock,
                   dumped, last_bt>>
    /\ UNCHANGED <<cpu_active, stopped, irq_disabled>>
    /\ IpiLifeUnchanged /\ IpiUnchanged

\* Mutant: the bit is set without looking at its old value.
test_and_set_bit_blind(flag) == FALSE

\* test_and_set_bit(0, &backtrace_flag): the old value; the bit is set.
test_and_set_bit(flag) == flag

\* smp_send_all_cpu_backtrace(), lines 868-878, on core cpu: with the flag
\* already set the call returns at once.
Backtrace_TestAndSet(cpu) ==
    /\ bt[cpu] = "none" /\ cpu \in cpu_online
    /\ cpu \notin stopped /\ ~InSender(cpu)
    /\ backtrace_flag \/ CallBudget
    /\ IF test_and_set_bit(backtrace_flag)
          THEN /\ last_bt' = [NoBacktrace EXCEPT !.called = TRUE,
                                                 !.cpu = cpu, !.noop = TRUE]
               /\ last_bt' # last_bt
               /\ UNCHANGED bt
          ELSE /\ last_bt' = [NoBacktrace EXCEPT !.called = TRUE, !.cpu = cpu]
               /\ bt' = [bt EXCEPT ![cpu] = "got"]
    /\ backtrace_flag' = TRUE
    /\ UNCHANGED <<system_state, pending_ipi, ipi_raised, ncalls, snd, stp,
                   backtrace_mask, bt_i, backtrace_lock, dumped>>
    /\ UNCHANGED <<cpu_active, stopped, irq_disabled>>
    /\ IpiLifeUnchanged /\ IpiUnchanged

\* smp_send_all_cpu_backtrace(), lines 880-883: the mask is the online cores
\* but this one; the output of this core begins.
Backtrace_MaskCopy(cpu) ==
    /\ bt[cpu] = "got"
    /\ backtrace_mask' = cpu_online \ {cpu}
    /\ bt' = [bt EXCEPT ![cpu] = "dumping"]
    /\ UNCHANGED <<system_state, pending_ipi, ipi_raised, ncalls, snd, stp,
                   backtrace_flag, bt_i, backtrace_lock, dumped, last_bt>>
    /\ UNCHANGED <<cpu_active, stopped, irq_disabled>>
    /\ IpiLifeUnchanged /\ IpiUnchanged

\* smp_send_all_cpu_backtrace(), line 884: dump_stack() of this core, which
\* takes no lock, comes to its end.
Backtrace_Dump(cpu) ==
    /\ bt[cpu] = "dumping"
    /\ bt' = [bt EXCEPT ![cpu] = "dumped"]
    /\ UNCHANGED <<system_state, pending_ipi, ipi_raised, ncalls, snd, stp,
                   backtrace_flag, backtrace_mask, bt_i, backtrace_lock,
                   dumped, last_bt>>
    /\ UNCHANGED <<cpu_active, stopped, irq_disabled>>
    /\ IpiLifeUnchanged /\ IpiUnchanged

\* smp_send_all_cpu_backtrace(), lines 886-888: smp_cross_call() on a mask
\* that is not empty; pending_ipi is not written.
Backtrace_Send(cpu) ==
    /\ bt[cpu] = "dumped"
    /\ IF backtrace_mask # {}
          THEN smp_cross_call(backtrace_mask, "IPI_CPU_BACKTRACE")
          ELSE UNCHANGED <<ipi_raised, ncalls>>
    /\ bt' = [bt EXCEPT ![cpu] = "wait"]
    /\ bt_i' = [bt_i EXCEPT ![cpu] = 0]
    /\ UNCHANGED <<system_state, pending_ipi, snd, stp, backtrace_flag,
                   backtrace_mask, dumped, last_bt>>
    /\ UNCHANGED <<cpu_active, stopped, irq_disabled>>
    /\ UNCHANGED backtrace_lock
    /\ IpiLifeUnchanged /\ IpiUnchanged

\* Mutant: the loop ends only on an empty mask.
BacktraceWaitOver_unbounded(i) == backtrace_mask = {}

\* smp_send_all_cpu_backtrace(), lines 891-895: the loop is left when
\* i reaches its bound or the mask is empty.
BacktraceWaitOver(i) == i = MaxWait \/ backtrace_mask = {}

\* One turn of the loop: mdelay(1); i++
Backtrace_Wait(cpu) ==
    /\ bt[cpu] = "wait"
    /\ IF BacktraceWaitOver(bt_i[cpu])
          THEN /\ bt' = [bt EXCEPT ![cpu] = "release"]
               /\ last_bt' = [NoBacktrace EXCEPT
                                 !.called = TRUE, !.cpu = cpu,
                                 !.timed_out = (backtrace_mask # {})]
               /\ UNCHANGED bt_i
          ELSE /\ bt_i' = [bt_i EXCEPT ![cpu] =
                             IF @ < MaxWait THEN @ + 1 ELSE @]
               /\ UNCHANGED <<bt, last_bt>>
    /\ UNCHANGED <<system_state, pending_ipi, ipi_raised, ncalls, snd, stp,
                   backtrace_flag, backtrace_mask, dumped>>
    /\ UNCHANGED <<cpu_active, stopped, irq_disabled>>
    /\ UNCHANGED backtrace_lock
    /\ IpiLifeUnchanged /\ IpiUnchanged

\* smp_send_all_cpu_backtrace(), lines 897-898: clear_bit(0, &backtrace_flag)
Backtrace_Release(cpu) ==
    /\ bt[cpu] = "release"
    /\ backtrace_flag' = FALSE
    /\ bt' = [bt EXCEPT ![cpu] = "none"]
    /\ bt_i' = [bt_i EXCEPT ![cpu] = 0]
    /\ UNCHANGED <<system_state, pending_ipi, ipi_raised, ncalls, snd, stp,
                   backtrace_mask, dumped, last_bt>>
    /\ UNCHANGED <<cpu_active, stopped, irq_disabled>>
    /\ UNCHANGED backtrace_lock
    /\ IpiLifeUnchanged /\ IpiUnchanged

\* State with the system up: some cores online and running, among them
\* the active ones; nothing sent yet.
InitIpi ==
    /\ acpi_disabled = TRUE
    /\ nr_cpu_ids = NR_CPUS
    /\ cpu_logical_map = [c \in Cpus |-> 0]
    /\ cpu_count = NR_CPUS
    /\ bootcpu_valid = TRUE
    /\ epc = "done"
    /\ init_i = NR_CPUS
    /\ nrecords = 0
    /\ rec = [reg |-> NoReg, usable |-> FALSE]
    /\ last = "none"
    /\ accepted = <<>>
    /\ init_called = Secondaries
    /\ cpu_ops = [c \in Cpus |-> PsciOps]
    /\ cpu_possible = Cpus
    /\ cpu_present = Cpus
    /\ cpu_online \in {S \in SUBSET Cpus : 0 \in S}
    /\ config_hotplug_cpu = TRUE
    /\ BootVarsAtRest
    /\ prepared = TRUE
    /\ cpu_active \in SUBSET cpu_online
    /\ stopped = {}
    /\ irq_disabled = {}
    /\ death_reported = {}
    /\ irqs_migrated = {}
    /\ dpc = [c \in Cpus |-> "run"]
    /\ hp = NoTeardown
    /\ stuck_query = NoQuery
    /\ system_state \in {"SYSTEM_RUNNING", "SYSTEM_HALT"}
    /\ IpiVarsAtRest

\* smp_send_reschedule() and smp_send_stop(), which both go through
\* smp_cross_call_common(), and the handlers of what they send.
NextIpi ==
    \/ \E cpu \in Cpus : smp_send_reschedule(cpu)
    \/ CrossCallCommon_Call
    \/ \E cpu \in Cpus : HandleIPI_Stop(cpu)
    \/ \E cpu \in Cpus : HandleIPI_Other(cpu, "IPI_RESCHEDULE")
    \/ \E cpu \in Cpus : SendStop_Begin(cpu)
    \/ SendStop_Spin
    \/ SendStop_Return

SpecIpi == InitIpi /\ [][NextIpi]_vars

\* The same with the system halting, as under machine_halt(): system_state
\* decides the register dump of ipi_cpu_stop() and nothing else.
InitHalt == InitIpi /\ system_state = "SYSTEM_HALT"

SpecHalt == InitHalt /\ [][NextIpi]_vars

\* A sender that has started keeps running: the call on its way is made
\* and the loop of smp_send_stop() turns.  No core is required ever to
\* take an interrupt.
SpecIpiLive ==
    /\ SpecHalt
    /\ WF_vars(CrossCallCommon_Call)
    /\ WF_vars(SendStop_Spin \/ SendStop_Return)

\* State with the system up and every online core active.
InitBt ==
    /\ InitIpi
    /\ cpu_active = cpu_online
    /\ system_state = "SYSTEM_RUNNING"

\* smp_send_all_cpu_backtrace() on any online core, and the handler of
\* IPI_CPU_BACKTRACE.
NextBt ==
    \/ \E cpu \in Cpus : Backtrace_TestAndSet(cpu)
    \/ \E cpu \in Cpus : Backtrace_MaskCopy(cpu)
    \/ \E cpu \in Cpus : Backtrace_Dump(cpu)
    \/ \E cpu \in Cpus : Backtrace_Send(cpu)
    \/ \E cpu \in Cpus : Backtrace_Wait(cpu)
    \/ \E cpu \in Cpus : Backtrace_Release(cpu)
    \/ \E cpu \in Cpus : HandleIPI_Backtrace(cpu)
    \/ \E cpu \in Cpus : HandleIPI_BacktraceEnd(cpu)

SpecBt == InitBt /\ [][NextBt]_vars

\* A core inside smp_send_all_cpu_backtrace() keeps running.  No core is
\* required ever to take the interrupt.
SpecBtLive ==
    /\ SpecBt
    /\ WF_vars(\E cpu \in Cpus : \/ Backtrace_MaskCopy(cpu)
                                 \/ Backtrace_Dump(cpu)
                                 \/ Backtrace_Send(cpu)
                                 \/ Backtrace_Wait(cpu)
                                 \/ Backtrace_Release(cpu))

(***************************************************************************)
(* Claims about bring-up, checked under Spec.                              *)
(***************************************************************************)
\* The current __cpu_up call is over: it returned, or it ended in panic().
CpuUpOver == pc \in {"returned", "panic"}
\* ... and it failed after the core had been released.
CpuUpFailed == CpuUpOver /\ att.released /\ ret # "0"

\* C1 as claimed: a wait of __cpu_up that ends on the completion was
\* signalled by its own target: whenever the wait returned because
\* cpu_running was completed, the target core of this call had run
\* complete(&cpu_running), so no other core's late signal ended it.
C1_Original ==
    att.woken = "completed" => att.target_signalled

\* C2: once cpu_boot accepted the release, __cpu_up ends with ret = 0 exactly
\* when cpu_online(cpu) was true at the test that follows the wait, however
\* the wait ended; from that test on ret no longer changes.
C2_SuccessIffOnline ==
    (pc \in {"status", "returned", "panic"} /\ att.released) =>
        /\ (ret = "0") <=> att.online_seen
        /\ ret \in {"0", "-EIO"}
        /\ pc = "panic" => ret # "0"

\* C2 witness: the wait timed out, the core was online at the test, and
\* __cpu_up returned 0.
C2_Witness ==
    /\ pc = "returned" /\ att.released
    /\ att.woken = "timeout" /\ att.online_seen
    /\ ret = "0"

\* C3 as claimed: on a failed call whose status read back is CPU_KILL_ME the
\* kill is attempted; a failed kill reports DiedDuringBoot, a successful one
\* MayNotHaveShutDownCleanly.
C3_Original ==
    (CpuUpFailed /\ att.word # "none" /\ att.status = CPU_KILL_ME) =>
        /\ att.kill # "none"
        /\ att.kill = "fail" => att.report = {"DiedDuringBoot"}
        /\ att.kill = "ok" => /\ "MayNotHaveShutDownCleanly" \in att.report
                              /\ "DiedDuringBoot" \notin att.report

\* C3 amended: on a failed call whose status read back is CPU_KILL_ME the
\* kill is attempted; if it succeeds (or the core has no cpu_kill method)
\* DiedDuringBoot alone is reported and the stuck counter is unchanged; if
\* it fails, MayNotHaveShutDownCleanly and StuckInKernel are reported and
\* the stuck counter is incremented by one.
C3_KillClassification ==
    (CpuUpFailed /\ att.word # "none" /\ att.status = CPU_KILL_ME) =>
        /\ pc = "returned"
        /\ att.kill # "none"
        /\ att.kill = "ok" =>
              /\ att.report = {"DiedDuringBoot"}
              /\ cpus_stuck_in_kernel = att.stuck_before
        /\ att.kill = "fail" =>
              /\ att.report = {"MayNotHaveShutDownCleanly", "StuckInKernel"}
              /\ cpus_stuck_in_kernel = att.stuck_before + 1

\* C3 witness: the target asked to be killed, has a cpu_kill method, and the
\* kill failed.
C3_Witness ==
    /\ CpuUpFailed /\ att.status = CPU_KILL_ME
    /\ cpu_ops[up_cpu].cpu_kill
    /\ att.kill = "fail"

\* The three statuses the switch names, and what it does for each.
C4_NamedCases ==
    /\ att.status = CPU_STUCK_IN_KERNEL =>
          /\ att.report = {"StuckInKernel"}
          /\ cpus_stuck_in_kernel = att.stuck_before + 1
    /\ (att.status = CPU_PANIC_KERNEL) <=> (pc = "panic")
    /\ att.status = CPU_KILL_ME =>
          /\ att.kill # "none"
          /\ att.report \cap {"DiedDuringBoot", "MayNotHaveShutDownCleanly"} # {}
    /\ att.status # CPU_KILL_ME => att.kill = "none"

\* C4 as claimed: a failed call is classified by the status value read back
\* alone (the early word substituted for CPU_MMU_OFF): the three named cases,
\* and UnknownFailureState for every other value.
C4_Original ==
    (CpuUpFailed /\ att.woken = "timeout" /\ ~att.online_seen) =>
        /\ C4_NamedCases
        /\ att.status \notin {CPU_STUCK_IN_KERNEL, CPU_PANIC_KERNEL, CPU_KILL_ME}
              => /\ att.report = {"UnknownFailureState"}
                 /\ cpus_stuck_in_kernel = att.stuck_before

\* C4 amended: as claimed, except that a failed call whose normal status word
\* itself reads zero (CPU_BOOT_SUCCESS) is not classified at all: nothing is
\* reported and the stuck counter is unchanged.  Every other value outside
\* the three named ones - CPU_MMU_OFF still, or zero read from the early
\* word - yields UnknownFailureState.
C4_Classification ==
    CpuUpFailed =>
        IF att.word = "none"
           THEN /\ att.status = CPU_BOOT_SUCCESS
                /\ att.report = {}
                /\ att.kill = "none"
                /\ cpus_stuck_in_kernel = att.stuck_before
                /\ pc = "returned"
           ELSE /\ C4_NamedCases
                /\ att.status \notin {CPU_STUCK_IN_KERNEL, CPU_PANIC_KERNEL,
                                      CPU_KILL_ME}
                      => /\ att.report = {"UnknownFailureState"}
                         /\ cpus_stuck_in_kernel = att.stuck_before

\* C4 witness: the wait timed out, the core was not online, and the status
\* read back was CPU_STUCK_IN_KERNEL.
C4_Witness ==
    /\ CpuUpFailed /\ att.woken = "timeout"
    /\ att.status = CPU_STUCK_IN_KERNEL
    /\ att.report = {"StuckInKernel"}

\* C5: the step of __cpu_up that calls boot_secondary, when the core has no
\* cpu_boot method or the method returns an error, returns that error at
\* once: no wait is entered, the completion, the online mask and the stuck
\* counter are untouched, the core is not released and is not online.
C5_BootRefused ==
    [][ (pc = "boot" /\ pc' # "boot"
           /\ (~cpu_ops[up_cpu].cpu_boot \/ att'.op_ret # "0")) =>
          /\ pc' = "returned"
          /\ ret' # "0"
          /\ ~att'.released /\ att'.woken = "none"
          /\ cpu_running' = cpu_running
          /\ cpu_online' = cpu_online /\ up_cpu \notin cpu_online'
          /\ cpus_stuck_in_kernel' = cpus_stuck_in_kernel
          /\ spc' = spc
      ]_vars

\* C5 witness: a call on a core without cpu_boot method has returned
\* -EOPNOTSUPP.
C5_Witness ==
    /\ pc = "returned" /\ ~att.released
    /\ ~cpu_ops[up_cpu].cpu_boot
    /\ ret = "-EOPNOTSUPP"

\* C6 as claimed: whenever __cpu_up has returned, on every outcome, the
\* task and stack fields of secondary_data are NULL.
C6_Original ==
    pc = "returned" =>
        secondary_data.task = NULL /\ secondary_data.stack = NULL

\* C20: on the secondary entry path a core writes CPU_BOOT_SUCCESS, then
\* sets its online bit, then completes cpu_running, in that order: a core
\* becomes online only from the position right after the status write, the
\* completion is signalled only by a core that is already online, and so a
\* core that has signalled (the target of the current call included) is
\* online.
C20_EntryOrder ==
    /\ [](/\ \A c \in Secondaries : spc[c] = "idle" => c \in cpu_online
          /\ att.target_signalled => up_cpu \in cpu_online)
    /\ [][\A c \in Secondaries :
            /\ (c \in cpu_online' /\ c \notin cpu_online)
                  => spc[c] = "status_written"
            /\ (spc'[c] = "status_written" /\ spc[c] # "status_written")
                  => /\ secondary_data'.status = CPU_BOOT_SUCCESS
                     /\ c \notin cpu_online'
            /\ (spc'[c] = "idle" /\ spc[c] # "idle")
                  => /\ c \in cpu_online
                     /\ cpu_running' = cpu_running + 1
       ]_vars

\* C20 witness: the wait of __cpu_up ended on the completion signalled by
\* its own target, which is online, and the call returned 0.
C20_Witness ==
    /\ pc = "returned" /\ ret = "0"
    /\ att.woken = "completed" /\ att.target_signalled
    /\ up_cpu \in cpu_online /\ spc[up_cpu] = "idle"

(***************************************************************************)
(* Claims about enumeration, checked under SpecEnum.                       *)
(***************************************************************************)
Assigned(i) == cpu_logical_map[i] # INVALID_HWID
AssignedSecondaries == {i \in Secondaries : Assigned(i)}
AcceptedIdx == {accepted[k].idx : k \in 1 .. Len(accepted)}

\* C7: at every point of smp_init_cpus() - during the walk, after it and
\* after the init pass - any two distinct logical indices whose hardware
\* identifier is assigned (not INVALID_HWID) hold different identifiers.
C7_UniqueHardwareIds ==
    \A i \in Cpus, j \in Cpus :
        (i # j /\ Assigned(i) /\ Assigned(j))
            => cpu_logical_map[i] # cpu_logical_map[j]

\* C7 witness: the boot CPU was matched, a secondary was assigned, the last
\* record repeated an assigned identifier and was dropped, and the init
\* pass has run.
C7_Witness ==
    /\ epc = "done" /\ bootcpu_valid
    /\ last = "duplicate"
    /\ init_called # {}
    /\ AssignedSecondaries # {}

C9_BootSlotImmutable ==
    [][ /\ cpu_logical_map'[0] = cpu_logical_map[0]
        /\ (nrecords' # nrecords /\ rec'.usable
              /\ rec'.reg = cpu_logical_map[0]) =>
              /\ bootcpu_valid'
              /\ cpu_logical_map' = cpu_logical_map
              /\ ~bootcpu_valid => (cpu_count' = cpu_count /\ last' = "boot")
              /\ bootcpu_valid => last' = "bootdup"
        /\ (nrecords' # nrecords /\ bootcpu_valid' /\ ~bootcpu_valid) =>
              (rec'.usable /\ rec'.reg = cpu_logical_map[0])
      ]_vars

\* C9 witness: a second record matching the boot CPU was walked after a
\* secondary had been assigned.
C9_Witness ==
    /\ bootcpu_valid /\ last = "bootdup"
    /\ AssignedSecondaries # {}

\* C10: when the walk ends without a boot-CPU match, smp_init_cpus() is
\* over: smp_cpu_setup() has run for no index and no secondary is possible.
C10_NoBootCpuNoSecondaries ==
    (epc # "enumerate" /\ ~bootcpu_valid) =>
        /\ epc = "done"
        /\ init_called = {}
        /\ cpu_possible = {0}
        /\ \A c \in Secondaries : ~cpu_ops[c].set

\* C10 witness: the walk assigned every secondary slot and never matched
\* the boot CPU.
C10_Witness ==
    /\ epc = "done" /\ ~bootcpu_valid
    /\ AssignedSecondaries = Secondaries

C12_Disable ==
    [][ LET cpu == hp.cpu
            ops == cpu_ops[cpu]
        IN /\ (hp.cpc = "deact" /\ hp'.cpc = "refused") =>
                /\ cpu \in cpu_online /\ cpu_online' = cpu_online
                /\ irqs_migrated' = irqs_migrated
                /\ IF ~ops.set \/ ~ops.cpu_die
                      THEN hp'.ret = "-EOPNOTSUPP"
                      ELSE ops.cpu_disable /\ hp'.ret = "-EINVAL"
           /\ \A c \in cpu_online \ cpu_online' :
                /\ c = cpu /\ hp.cpc = "deact"
                /\ cpu_online' = cpu_online \ {cpu}
                /\ ops.set /\ ops.cpu_die
                /\ hp'.ret = "0"
                /\ irqs_migrated' = irqs_migrated
           /\ irqs_migrated' # irqs_migrated =>
                /\ irqs_migrated' = irqs_migrated \cup {cpu}
                /\ cpu \notin cpu_online
                /\ hp.ret = "0"
      ]_vars

\* C12 witness: the cpu_disable hook of a core with cpu_die method failed,
\* and the core is still online with its interrupts in place.
C12_Witness ==
    /\ hp.cpc = "refused" /\ hp.ret = "-EINVAL"
    /\ cpu_ops[hp.cpu].cpu_die
    /\ hp.cpu \in cpu_online /\ hp.cpu \notin irqs_migrated

\* C13: on the teardown path op_cpu_kill() is called only after the core
\* reported its death, which it does with its interrupts disabled and before
\* it calls its cpu_die method; when the bounded wait of __cpu_die() ends
\* without a report, __cpu_die() returns without the kill; a failed kill
\* changes nothing else.
C13_KillAfterDeath ==
    /\ [](/\ hp.cpc = "kill" \/ hp.kill # "none" =>
                /\ hp.waited = "dead"
                /\ hp.cpu \in death_reported
          /\ hp.waited = "timeout" => hp.cpc = "done" /\ hp.kill = "none"
          /\ death_reported \subseteq irq_disabled
          /\ \A c \in Cpus :
                (dpc[c] \in {"dead", "bug"}) => c \in death_reported)
    /\ [][ (hp.kill = "none" /\ hp'.kill = "fail") =>
              /\ hp'.cpc = "done"
              /\ UNCHANGED <<pc, ret, cpus_stuck_in_kernel, maskVars,
                             cpu_active, dpc, death_reported, stopped>>
       ]_vars

\* C13 witness: the core reported its death, the kill was tried and failed,
\* and __cpu_die() returned.
C13_Witness ==
    /\ hp.cpc = "done" /\ hp.waited = "dead" /\ hp.kill = "fail"
    /\ hp.cpu \in death_reported

\* A core has a die operation: the build has hotplug and its cpu_ops has a
\* cpu_die method.
HasDie(c) == config_hotplug_cpu /\ cpu_ops[c].set /\ cpu_ops[c].cpu_die

\* C14 as claimed: with no stuck core and more than one possible core the
\* stuck-core predicate is true exactly when some possible core lacks a die
\* operation, whichever core evaluates it; with a positive stuck count it is
\* true.
C14_Original ==
    stuck_query.asked =>
        /\ (stuck_query.stuck = 0 /\ Cardinality(cpu_possible) > 1) =>
              (stuck_query.result <=> \E c \in cpu_possible : ~HasDie(c))
        /\ stuck_query.stuck > 0 => stuck_query.result

(***************************************************************************)
(* Claims about inter-processor interrupts, checked under SpecBt and       *)
(* SpecIpi.                                                                *)
(***************************************************************************)
\* The step is a call of smp_send_all_cpu_backtrace() that found the flag
\* set and returned at once.
BacktraceNoop == last_bt' # last_bt /\ last_bt'.called /\ last_bt'.noop

\* C15: smp_send_all_cpu_backtrace() is single-flight.  At most one core is
\* between test_and_set_bit() and clear_bit(), and the flag is set exactly
\* while one is; a core enters only with the flag clear; a call made while
\* another core holds the flag returns without touching backtrace_mask,
\* without dumping and without a cross call, and leaves the holder where it
\* was.
C15_SingleFlight ==
    /\ [](/\ Cardinality(BacktraceHolders) <= 1
          /\ backtrace_flag <=> BacktraceHolders # {})
    /\ [][ \A c \in Cpus :
              (bt[c] = "none" /\ bt'[c] # "none") =>
                  /\ ~backtrace_flag /\ BacktraceHolders = {}
                  /\ bt'[c] = "got" /\ backtrace_flag'
       ]_vars
    /\ [][ BacktraceNoop =>
              /\ backtrace_flag /\ BacktraceHolders # {}
              /\ last_bt'.cpu \notin BacktraceHolders
              /\ UNCHANGED <<backtrace_mask, backtrace_lock, ncalls,
                             ipi_raised, pending_ipi, bt, bt_i,
                             backtrace_flag>>
       ]_vars

\* C15 witness: a second call returned as a no-op while the first caller
\* waits for cores that have not answered yet.
C15_Witness ==
    /\ last_bt.called /\ last_bt.noop
    /\ \E c \in Cpus : /\ bt[c] = "wait" /\ c # last_bt.cpu
                       /\ backtrace_mask # {}
                       /\ "IPI_CPU_BACKTRACE" \in ipi_raised[last_bt.cpu]

\* C16: every call of smp_send_all_cpu_backtrace() that set the flag comes
\* to its end with the flag clear, whether backtrace_mask emptied or the
\* loop ran out with cores still in it (there is one such call at a time,
\* C15); the function is left only through clear_bit(), and a call made
\* with the flag clear starts a session.
C16_Terminates ==
    /\ (BacktraceHolders # {}) ~>
          (BacktraceHolders = {} /\ ~backtrace_flag)
    /\ [][ \A c \in Cpus :
              (bt[c] # "none" /\ bt'[c] = "none") =>
                  bt[c] = "release" /\ ~backtrace_flag'
       ]_vars
    /\ [][ \A c \in Cpus :
              (bt[c] = "wait" /\ bt'[c] = "release") =>
                  backtrace_mask = {} \/ bt_i[c] = MaxWait
       ]_vars
    /\ [][ ( /\ last_bt' # last_bt /\ bt[last_bt'.cpu] = "none"
             /\ ~backtrace_flag ) => bt'[last_bt'.cpu] = "got"
       ]_vars

\* C16 witness: a session ran out of time with cores still in
\* backtrace_mask, released the flag, and a new call has set it again.
C16_Witness ==
    \E c \in Cpus :
        /\ bt[c] = "got" /\ backtrace_flag
        /\ backtrace_mask # {} /\ ncalls >= 1

\* C17: a core that handles IPI_CPU_STOP leaves cpu_active whatever
\* system_state is, and stays as it is from then on: stopped, inactive,
\* interrupts off, every interrupt raised for it and its pending_ipi flag
\* left as they are.  A core becomes stopped only by taking an
\* IPI_CPU_STOP raised for it, and no core leaves or enters cpu_active by
\* any other step of the IPI path.
C17_StopTerminal ==
    /\ [](/\ stopped \cap cpu_active = {}
          /\ stopped \subseteq irq_disabled)
    /\ [][ \A c \in Cpus :
              /\ c \in stopped =>
                    /\ c \in stopped'
                    /\ ipi_raised[c] \subseteq ipi_raised'[c]
                    /\ c \in pending_ipi => c \in pending_ipi'
              /\ (c \notin stopped /\ c \in stopped') =>
                    /\ "IPI_CPU_STOP" \in ipi_raised[c]
                    /\ c \notin cpu_active'
              /\ (c \in cpu_active /\ c \notin cpu_active') =>
                    (c \notin stopped /\ c \in stopped')
              /\ c \notin cpu_active => c \notin cpu_active'
       ]_vars

\* C17 witness: with the system halting a core took IPI_CPU_STOP without
\* the dump, is inactive, and a reschedule interrupt raised for it since
\* stays raised.
C17_Witness ==
    \E c \in Cpus :
        /\ system_state = "SYSTEM_HALT"
        /\ c \in stopped /\ c \notin cpu_active
        /\ <<"stop", c>> \notin dumped
        /\ "IPI_RESCHEDULE" \in ipi_raised[c] /\ c \in pending_ipi
        /\ stp.sent /\ c \in stp.mask

\* C18: smp_send_stop() sends IPI_CPU_STOP to the online cores other than
\* the calling one, and sends nothing when there is none; the calling core
\* is not in the mask and is never stopped; the loop turns only while
\* another core is active and time is left, the function returns when no
\* other core is active or the time is used up, and it always returns.
C18_StopAll ==
    /\ [](stp.pc # "none" =>
            /\ stp.cpu \notin stopped
            /\ stp.cpu \notin stp.mask
            /\ "IPI_CPU_STOP" \notin ipi_raised[stp.cpu]
            /\ (stp.pc = "sending" \/ stp.sent) =>
                  /\ stp.mask = cpu_online \ {stp.cpu}
                  /\ stp.mask # {}
            /\ cpu_online \ {stp.cpu} = {} =>
                  /\ ~stp.sent /\ stp.pc # "sending"
                  /\ \A c \in Cpus : "IPI_CPU_STOP" \notin ipi_raised[c])
    /\ [](\A c \in Cpus :
            ("IPI_CPU_STOP" \in ipi_raised[c] \/ c \in stopped) =>
                (stp.sent /\ c \in stp.mask))
    /\ [][ (stp.pc = "sending" /\ stp'.pc # "sending") =>
              /\ stp'.pc = "wait" /\ stp'.sent
              /\ ncalls' = ncalls + 1
              /\ \A c \in Cpus :
                    "IPI_CPU_STOP" \in ipi_raised'[c]
                        <=> c \in cpu_online \ {stp.cpu}
       ]_vars
    /\ [][ (stp.pc = "wait" /\ stp'.timeout # stp.timeout) =>
              /\ num_other_active_cpus(stp.cpu) # 0
              /\ stp'.timeout = stp.timeout - 1 /\ stp'.pc = "wait"
       ]_vars
    /\ [][ (stp.pc # "done" /\ stp'.pc = "done") =>
              /\ stp.pc = "wait"
              /\ num_other_active_cpus(stp.cpu) = 0 \/ stp.timeout = 0
       ]_vars
    /\ (stp.pc \in {"sending", "wait"}) ~> (stp.pc = "done")

\* C18 witness: smp_send_stop() returned with its time used up: of the two
\* cores it sent to, one stopped and the other, still active, never took
\* the interrupt.
C18_Witness ==
    /\ stp.pc = "done" /\ stp.sent /\ stp.timeout = 0
    /\ stp.cpu \in cpu_online
    /\ \E c, d \in stp.mask :
          /\ c # d /\ c \in stopped
          /\ d \in cpu_active /\ "IPI_CPU_STOP" \in ipi_raised[d]

\* C19 as claimed, for the IPI_CPU_BACKTRACE sent by
\* smp_send_all_cpu_backtrace(): the send sets pending_ipi for exactly the
\* cores of backtrace_mask and then makes exactly one cross call with that
\* mask, an empty mask included.
C19_Original ==
    [][ \A c \in Cpus :
          (bt[c] = "dumped" /\ bt'[c] = "wait") =>
              /\ pending_ipi' = pending_ipi \cup backtrace_mask
              /\ ncalls' = ncalls + 1
              /\ \A d \in Cpus :
                    "IPI_CPU_BACKTRACE" \in ipi_raised'[d]
                        <=> d \in backtrace_mask
    ]_vars

(***************************************************************************)
(* Claims about the early-death path, checked under Spec.                  *)
(***************************************************************************)
\* The positions of a core inside cpu_die_early(), and parked after it.
DieEarlyPath == {"die_early", "absent", "kill_me", "no_park", "dead"}

\* C21 as claimed: a core in cpu_die_early() clears its present bit and
\* then writes CPU_KILL_ME, in every build; it writes CPU_STUCK_IN_KERNEL
\* only if it has no die operation.
C21_Original ==
    [][ \A c \in Secondaries :
          /\ (spc[c] = "die_early" /\ spc'[c] # "die_early") =>
                (c \notin cpu_present' /\ spc'[c] = "absent")
          /\ (spc[c] = "absent" /\ spc'[c] # "absent") =>
                secondary_data'.status = CPU_KILL_ME
          /\ (spc[c] = "no_park" /\ spc'[c] = "parked") =>
                (secondary_data'.status = CPU_STUCK_IN_KERNEL /\ ~HasDie(c))
    ]_vars

\* C21 amended: a core in cpu_die_early() first clears its present bit.
\* In a build with CPU hotplug it then writes CPU_KILL_ME and, with a
\* cpu_die method, calls it: if the method parks the core the status is not
\* written again; without the method, or when the method returns, the core
\* writes CPU_STUCK_IN_KERNEL and parks.  In a build without CPU hotplug
\* CPU_KILL_ME is not written and the core goes on to CPU_STUCK_IN_KERNEL.
\* The core is never online on this path, does not touch cpu_online, and
\* cpu_running is completed only by a core that is online.
C21_EarlyDeath ==
    /\ [](\A c \in Secondaries :
            /\ spc[c] \in DieEarlyPath => c \notin cpu_online
            /\ spc[c] \in DieEarlyPath \ {"die_early"} =>
                  c \notin cpu_present)
    /\ [][ \A c \in Secondaries :
              /\ spc[c] \in DieEarlyPath =>
                    /\ spc'[c] \in DieEarlyPath \cup {"parked"}
                    /\ spc'[c] # spc[c] =>
                          /\ cpu_online' = cpu_online
                          /\ cpu_running' = cpu_running
              /\ spc[c] = "dead" => spc'[c] = "dead"
              /\ (spc[c] = "die_early" /\ spc'[c] # "die_early") =>
                    /\ cpu_present' = cpu_present \ {c}
                    /\ secondary_data' = secondary_data
                    /\ spc'[c] = IF config_hotplug_cpu THEN "absent"
                                 ELSE "no_park"
              /\ (spc[c] = "absent" /\ spc'[c] # "absent") =>
                    /\ spc'[c] = "kill_me" /\ config_hotplug_cpu
                    /\ secondary_data'.status = CPU_KILL_ME
              /\ (spc[c] = "kill_me" /\ spc'[c] # "kill_me") =>
                    /\ secondary_data' = secondary_data
                    /\ spc'[c] \in {"dead", "no_park"}
                    /\ spc'[c] = "dead" => HasDie(c)
                    /\ ~HasDie(c) => spc'[c] = "no_park"
              /\ (spc[c] = "no_park" /\ spc'[c] # "no_park") =>
                    /\ spc'[c] = "parked"
                    /\ secondary_data'.status = CPU_STUCK_IN_KERNEL
       ]_vars
    /\ [][ cpu_running' > cpu_running =>
              \E c \in Secondaries :
                  /\ spc[c] = "online" /\ spc'[c] = "idle"
                  /\ c \in cpu_online
       ]_vars

\* C21 witness: a core with a cpu_die method went through cpu_die_early(),
\* the method returned, and the core wrote CPU_STUCK_IN_KERNEL and parked,
\* absent and never online.
C21_Witness ==
    \E c \in Secondaries :
        /\ spc[c] = "parked" /\ HasDie(c)
        /\ c \notin cpu_present /\ c \notin cpu_online
        /\ secondary_data.status = CPU_STUCK_IN_KERNEL

(***************************************************************************)
(* Claims about pending_ipi, checked under SpecIpi.                        *)
(***************************************************************************)
\* C22 as claimed: pending_ipi is set for a core whenever an interrupt
\* raised for it has not been handled to its end yet.
C22_Original ==
    \A c \in Cpus : ipi_raised[c] # {} => c \in pending_ipi

\* The step is the return of handle_IPI() on core c.
HandlerReturns(c) ==
    \/ /\ ipi_raised'[c] # ipi_raised[c]
       /\ ipi_raised'[c] \subseteq ipi_raised[c]
       /\ c \notin stopped' /\ c \notin backtrace_lock'
    \/ c \in backtrace_lock /\ c \notin backtrace_lock'

\* C22 amended: pending_ipi is one boolean per core, not a count.  It
\* becomes true for a core only when smp_cross_call_common() marks a mask
\* the core is in, which is done for the whole mask before the cross call
\* is made; it becomes false only when handle_IPI() returns on that core,
\* and it is false after every such return, whether or not another
\* interrupt raised for the core is still to be handled.
C22_PendingFlag ==
    [][ /\ (snd.pc = "none" /\ snd'.pc = "marked") =>
              /\ pending_ipi' = pending_ipi \cup snd'.mask
              /\ ipi_raised' = ipi_raised
        /\ ipi_raised' # ipi_raised /\ snd.pc = "marked" /\ snd'.pc = "none"
              => pending_ipi' = pending_ipi
        /\ \A c \in Cpus :
              /\ (c \notin pending_ipi /\ c \in pending_ipi') =>
                    /\ snd.pc = "none" /\ snd'.pc = "marked"
                    /\ c \in snd'.mask
              /\ (c \in pending_ipi /\ c \notin pending_ipi') =>
                    HandlerReturns(c)
              /\ HandlerReturns(c) => c \notin pending_ipi'
      ]_vars

\* C22 witness: two interrupts were raised for a running core, the handler
\* of the first returned and cleared pending_ipi, and the second is still
\* to be handled.
C22_Witness ==
    \E c \in Cpus :
        /\ c \notin stopped /\ c \notin pending_ipi
        /\ "IPI_CPU_STOP" \in ipi_raised[c]
        /\ "IPI_RESCHEDULE" \notin ipi_raised[c]
        /\ ncalls = 2 /\ stp.sent /\ snd.pc = "none"

(***************************************************************************)
(* Claims about the backtrace output, checked under SpecBt.                *)
(***************************************************************************)
\* The cores whose backtrace output is under way: a caller of
\* smp_send_all_cpu_backtrace() between its pr_info() and the end of its
\* dump_stack(), a responder inside show_regs().
Dumping == {c \in Cpus : bt[c] = "dumping"} \cup backtrace_lock

\* C23 as claimed: the backtrace output of two cores never overlaps,
\* whether they are two responders or a responder and the calling core.
C23_Original == Cardinality(Dumping) <= 1

(***************************************************************************)
(* Claims about the init pass, checked under SpecEnum.                     *)
(***************************************************************************)
\* C24: with the boot CPU matched, every turn of the init loop deals with
\* its own index only and the loop goes on to the next index whatever the
\* outcome: for an assigned index smp_cpu_setup() is called, and either it
\* failed, the map entry is reset to INVALID_HWID and the core is not made
\* possible, or it succeeded, the entry is kept, the cpu_ops are set and
\* the core is possible; an unassigned index is left alone.  The loop ends
\* only past its last index, and then every index below nr_cpu_ids is
\* possible exactly if it is still assigned.
C24_InitPass ==
    /\ [][ (epc = "init" /\ init_i' # init_i) =>
              LET i == init_i IN
              /\ epc' = "init" /\ init_i' = i + 1 /\ bootcpu_valid
              /\ \A j \in Cpus \ {i} :
                    /\ cpu_logical_map'[j] = cpu_logical_map[j]
                    /\ cpu_ops'[j] = cpu_ops[j]
                    /\ j \in cpu_possible' <=> j \in cpu_possible
                    /\ j \in init_called' <=> j \in init_called
              /\ Assigned(i) =>
                    /\ i \in init_called'
                    /\ \/ /\ cpu_logical_map'[i] = INVALID_HWID
                          /\ i \notin cpu_possible'
                       \/ /\ cpu_logical_map'[i] = cpu_logical_map[i]
                          /\ i \in cpu_possible' /\ cpu_ops'[i].set
              /\ ~Assigned(i) =>
                    UNCHANGED <<cpu_logical_map, cpu_ops, cpu_possible,
                                init_called>>
       ]_vars
    /\ [][ (epc = "init" /\ epc' # "init") =>
              (epc' = "done" /\ init_i >= nr_cpu_ids)
       ]_vars
    /\ []((epc = "done" /\ bootcpu_valid) =>
            \A i \in Secondaries :
                /\ i < nr_cpu_ids => (i \in cpu_possible <=> Assigned(i))
                /\ i \in cpu_possible => i \in init_called)

\* C24 witness: smp_cpu_setup() failed for index 1, whose map entry was
\* reset, and the pass went on to index 2, which is assigned and possible.
C24_Witness ==
    /\ epc = "done" /\ bootcpu_valid
    /\ 1 \in init_called /\ ~Assigned(1) /\ 1 \notin cpu_possible
    /\ 2 \in init_called /\ Assigned(2) /\ 2 \in cpu_possible

=============================================================================
